---- MODULE Spec2Model ----
(***************************************************************************)
(* Model of the tax regime calculation engine of tax-calc                  *)
(* (src/tax_core/calculators.py, src/tax_core/models.py) and of the caller *)
(* that edits a profile and recomputes (src/scripts/test_user_scenario.py, *)
(* src/app.py).                                                            *)
(*                                                                         *)
(* Numbers.  The program computes with Python floats.  The model computes  *)
(* with exact decimals: a number is a record [v, e] standing for           *)
(* v * 10^-e, kept normalised (no trailing zero digit in v while e > 0).   *)
(* Every rate of the program (0.01, 0.03, 0.05, 0.20, pension and property *)
(* rates) and every input amount is a decimal, so products, sums and       *)
(* differences are exact here; binary rounding error of floats is not      *)
(* modelled.  The only quotient, effective_rate, is an exact rational in   *)
(* a canonical form (see DDiv).                                            *)
(***************************************************************************)
EXTENDS Integers, Sequences, FiniteSets, TLC

\* profile: the caller's UserProfile; result: the CalculationResult of the
\* latest calculate_all; memo: a history variable, the input and output of one
\* earlier invocation picked by an observer (used by SpecObserved only);
\* store: the list objects built by the invocations whose results the caller
\* keeps, and the references to these results (used by SpecObjects only);
\* calls: the calculate_all invocations in progress, each with its position
\* and its local variables (used by SpecConcurrent and SpecEdited only);
\* db: the table of the profile store and what its last operation returned
\* (used by SpecStore only); imported: the rows of a CSV file and the
\* ImportResult of its import (used by SpecImport only)
VARIABLES profile, result, memo, store, calls, db, imported

vars == <<profile, result, memo, store, calls, db, imported>>

(***************************************************************************)
(* Exact decimal arithmetic (Python float +, -, *, comparisons).           *)
(***************************************************************************)
RECURSIVE Pow10(_)
Pow10(n) == IF n = 0 THEN 1 ELSE 10 * Pow10(n - 1)

RECURSIVE DNorm(_, _)
DNorm(v, e) ==
    IF e > 0 /\ v % 10 = 0 THEN DNorm(v \div 10, e - 1) ELSE [v |-> v, e |-> e]

D(v, e) == DNorm(v, e)

DInt(n) == [v |-> n, e |-> 0]

MaxOf(a, b) == IF a >= b THEN a ELSE b

\* the integer numerator of a at scale 10^-m (m >= a.e)
Scaled(a, m) == a.v * Pow10(m - a.e)

DAdd(a, b) == LET m == MaxOf(a.e, b.e) IN DNorm(Scaled(a, m) + Scaled(b, m), m)

DSub(a, b) == LET m == MaxOf(a.e, b.e) IN DNorm(Scaled(a, m) - Scaled(b, m), m)

DMul(a, b) == DNorm(a.v * b.v, a.e + b.e)

DLe(a, b) == LET m == MaxOf(a.e, b.e) IN Scaled(a, m) <= Scaled(b, m)

DGt(a, b) == ~DLe(a, b)

Zero == DInt(0)

RECURSIVE Gcd(_, _)
Gcd(a, b) == IF b = 0 THEN a ELSE Gcd(b, a % b)

Abs(n) == IF n < 0 THEN -n ELSE n

\* n with its factors q taken out: [r, k] with n = r * q^k, q not dividing r
RECURSIVE Strip(_, _, _)
Strip(n, q, k) ==
    IF n # 0 /\ n % q = 0 THEN Strip(n \div q, q, k + 1) ELSE [r |-> n, k |-> k]

(***************************************************************************)
(* Python float division a / b (b # 0), exact.  The quotient is the record *)
(* [n, d, p2, p5] standing for (n / d) * 2^p2 * 5^p5 with n / d in lowest  *)
(* terms, d > 0 and neither n nor d divisible by 2 or 5: every rational    *)
(* has exactly one such record, so equal quotients are equal records.      *)
(* With b = 0 Python raises ZeroDivisionError: the record with d = 0 stands *)
(* for the exception, which leaves calculate_all in place of its result.   *)
(***************************************************************************)
QuotZero == [n |-> 0, d |-> 1, p2 |-> 0, p5 |-> 0]

ZeroDivisionError == [n |-> 0, d |-> 0, p2 |-> 0, p5 |-> 0]

DDiv(a, b) ==
    IF b.v = 0 THEN ZeroDivisionError
    ELSE IF a.v = 0 THEN QuotZero
    ELSE LET g  == Gcd(Abs(a.v), Abs(b.v))
             s  == IF b.v < 0 THEN -1 ELSE 1
             n2 == Strip((s * a.v) \div g, 2, 0)
             n5 == Strip(n2.r, 5, 0)
             d2 == Strip((s * b.v) \div g, 2, 0)
             d5 == Strip(d2.r, 5, 0)
         IN  [n  |-> n5.r, d |-> d5.r,
              p2 |-> n2.k - d2.k + b.e - a.e,
              p5 |-> n5.k - d5.k + b.e - a.e]

RECURSIVE DSum(_)
DSum(s) == IF s = <<>> THEN Zero ELSE DAdd(Head(s), DSum(Tail(s)))

(***************************************************************************)
(* String formatting of numbers inside a step's `values` text.  A literal  *)
(* shown in the text is modelled by the decimal a reader gets back from    *)
(* it.  "{x:,.2f}" rounds to two decimals, the nearest cent (an exact      *)
(* decimal tie, which no input of this model produces, goes to the even    *)
(* cent here); "{x}" and "{x:,.0f}" of an integral value show the value    *)
(* itself.                                                                 *)
(***************************************************************************)
Fmt2(a) ==
    IF a.e <= 2 THEN a
    ELSE LET p    == Pow10(a.e - 2)
             neg  == a.v < 0
             mag  == IF neg THEN -a.v ELSE a.v
             q    == mag \div p
             r    == mag % p
             up   == (2 * r > p) \/ (2 * r = p /\ q % 2 = 1)
             c    == IF up THEN q + 1 ELSE q
         IN  DNorm(IF neg THEN -c ELSE c, 2)

FmtRaw(a) == a

(***************************************************************************)
(* Data model (models.py).  A step id "salary_0_gross" is the record       *)
(* [pre |-> "salary", idx |-> 0, suf |-> "gross", sub |-> -1]; sub is the  *)
(* second index of "property_0_prop_1" and -1 when the id has none; idx is *)
(* -1 for the ids without index ("dividends_total").  `values` is the      *)
(* sequence of the literals shown in the values text, left to right.       *)
(***************************************************************************)
\* faulty variant: the entries are numbered from 1
StepId_oneBased(pre, idx, suf) == [pre |-> pre, idx |-> idx + 1, suf |-> suf, sub |-> -1]

StepId(pre, idx, suf) == [pre |-> pre, idx |-> idx, suf |-> suf, sub |-> -1]

\* faulty variant: the per-property id without the property's index
StepId2_noSub(pre, idx, suf, sub) == [pre |-> pre, idx |-> idx, suf |-> suf, sub |-> -1]

StepId2(pre, idx, suf, sub) == [pre |-> pre, idx |-> idx, suf |-> suf, sub |-> sub]

CalculationStep(id, formula, values, res, legal_ref) ==
    [id |-> id, formula |-> formula, values |-> values, result |-> res,
     legal_ref |-> legal_ref]

RegimeResult(regime_id, tax, steps, warnings) ==
    [regime_id |-> regime_id, tax |-> tax, steps |-> steps, warnings |-> warnings]

\* a warning text "<subject> <n>: <msg>" with n = idx + 1
Warning(subject, n, msg) == [subject |-> subject, n |-> n, msg |-> msg]

\* the accumulators of a calculator: steps = [], total_tax = 0.0, warnings = []
\* faulty variant: the running total survives from the previous invocation
EmptyAcc_carried ==
    [steps |-> <<>>, total_tax |-> result.total_tax, warnings |-> <<>>]

EmptyAcc == [steps |-> <<>>, total_tax |-> Zero, warnings |-> <<>>]

(***************************************************************************)
(* calculate_salary                                                        *)
(***************************************************************************)
\* faulty variant: the employee's pension rate on top of the 20%
PitRate_pensionOnTop == D(22, 2)

PitRate == D(20, 2)

\* what one salary entry adds to the regime total (total_tax += pit)
\* faulty variant: the pension contribution counted as tax
SalaryTaxAdded_pension(pit, pension_contribution) == DAdd(pit, pension_contribution)

SalaryTaxAdded(pit, pension_contribution) == pit

SalaryEntry(acc, idx, salary) ==
    IF salary.monthly_gross.v <= 0 \/ salary.months <= 0 THEN acc
    ELSE LET annual_gross == DMul(salary.monthly_gross, DInt(salary.months))
             pension_contribution == DMul(annual_gross, salary.pension_employee_rate)
             pit == DMul(annual_gross, PitRate)
         IN  [acc EXCEPT
               !.steps = @ \o <<
                  CalculationStep(StepId("salary", idx, "gross"),
                      "gross = monthly_gross * months",
                      <<Fmt2(salary.monthly_gross), FmtRaw(DInt(salary.months))>>,
                      annual_gross, "RS.ge - Personal Income Tax"),
                  CalculationStep(StepId("salary", idx, "pension"),
                      "pension = gross * pension_rate",
                      <<Fmt2(annual_gross), FmtRaw(salary.pension_employee_rate)>>,
                      pension_contribution, "RS.ge - Pension Contributions"),
                  CalculationStep(StepId("salary", idx, "pit"),
                      "pit = gross * 0.20",
                      <<Fmt2(annual_gross), D(20, 2)>>,
                      pit, "RS.ge - Personal Income Tax Law, Article X") >>,
               !.total_tax = DAdd(@, SalaryTaxAdded(pit, pension_contribution))]

\* for idx, salary in enumerate(salary_incomes): ... continue ...
\* faulty variant: a skipped entry ends the loop (break for continue)
RECURSIVE SalaryLoop_stopAtSkipped(_, _, _)
SalaryLoop_stopAtSkipped(incomes, i, acc) ==
    IF i > Len(incomes) THEN acc
    ELSE IF incomes[i].monthly_gross.v <= 0 \/ incomes[i].months <= 0 THEN acc
    ELSE SalaryLoop_stopAtSkipped(incomes, i + 1,
                                  SalaryEntry(acc, i - 1, incomes[i]))

RECURSIVE SalaryLoop(_, _, _)
SalaryLoop(incomes, i, acc) ==
    IF i > Len(incomes) THEN acc
    ELSE SalaryLoop(incomes, i + 1, SalaryEntry(acc, i - 1, incomes[i]))

calculate_salary(salary_incomes) ==
    LET acc == SalaryLoop(salary_incomes, 1, EmptyAcc)
    IN  RegimeResult("salary", acc.total_tax, acc.steps, <<>>)

(***************************************************************************)
(* calculate_micro_business                                                *)
(***************************************************************************)
MicroWarnings(idx, micro) ==
    (IF ~micro.no_employees
       THEN <<Warning("Micro business", idx + 1,
                      "Has employees - may not qualify for 0% rate")>>
       ELSE <<>>)
    \o
    (IF ~micro.activity_allowed
       THEN <<Warning("Micro business", idx + 1,
                      "Activity may not be allowed for micro regime")>>
       ELSE <<>>)

\* the eligibility test of the 0% rate
\* faulty variant: one satisfied condition is enough
MicroEligible_either(micro) == micro.no_employees \/ micro.activity_allowed

MicroEligible(micro) == micro.no_employees /\ micro.activity_allowed

MicroEntry(acc, idx, micro) ==
    IF micro.turnover.v <= 0 THEN acc
    ELSE LET w == [acc EXCEPT !.warnings = @ \o MicroWarnings(idx, micro)]
         IN  IF MicroEligible(micro)
             THEN [w EXCEPT !.steps = Append(@,
                      CalculationStep(StepId("micro", idx, "tax"),
                          "tax = turnover * 0.00",
                          <<Fmt2(micro.turnover), D(0, 2)>>,
                          Zero, "RS.ge - Micro Business Tax Regime"))]
             ELSE LET fallback_tax == DMul(micro.turnover, D(20, 2))
                  IN  [w EXCEPT !.steps = Append(@,
                          CalculationStep(StepId("micro", idx, "tax"),
                              "tax = turnover * 0.20",
                              <<Fmt2(micro.turnover), D(20, 2)>>,
                              fallback_tax, "RS.ge - Personal Income Tax")),
                        !.total_tax = DAdd(@, fallback_tax)]

RECURSIVE MicroLoop(_, _, _)
MicroLoop(incomes, i, acc) ==
    IF i > Len(incomes) THEN acc
    ELSE MicroLoop(incomes, i + 1, MicroEntry(acc, i - 1, incomes[i]))

calculate_micro_business(micro_incomes) ==
    LET acc == MicroLoop(micro_incomes, 1, EmptyAcc)
    IN  RegimeResult("micro_business", acc.total_tax, acc.steps, acc.warnings)

(***************************************************************************)
(* calculate_small_business                                                *)
(***************************************************************************)
SmallThreshold == 500000

\* turnover <= threshold: the 1% branch
\* faulty variant: the threshold itself falls into the 3% branch
SmallBelow_strict(turnover) == ~DLe(DInt(SmallThreshold), turnover)

SmallBelow(turnover) == DLe(turnover, DInt(SmallThreshold))

\* "if not small.registered: warnings.append(...)"
\* faulty variant: an unregistered business also pays 1% more
SmallNotRegistered_surcharge(acc, idx, small) ==
    IF ~small.registered
    THEN [acc EXCEPT !.warnings = Append(@,
            Warning("Small business", idx + 1, "Not registered as small business")),
                     !.total_tax = DAdd(@, DMul(small.turnover, D(1, 2)))]
    ELSE acc

SmallNotRegistered(acc, idx, small) ==
    IF ~small.registered
    THEN [acc EXCEPT !.warnings = Append(@,
            Warning("Small business", idx + 1, "Not registered as small business"))]
    ELSE acc

SmallEntry(acc, idx, small) ==
    IF small.turnover.v <= 0 THEN acc
    ELSE LET w == SmallNotRegistered(acc, idx, small)
             threshold == DInt(SmallThreshold)
         IN  IF SmallBelow(small.turnover)
             THEN LET tax == DMul(small.turnover, D(1, 2))
                  IN  [w EXCEPT !.steps = Append(@,
                          CalculationStep(StepId("small", idx, "tax"),
                              "tax = turnover * 0.01",
                              <<Fmt2(small.turnover), D(1, 2)>>,
                              tax, "RS.ge - Small Business Tax Regime")),
                        !.total_tax = DAdd(@, tax)]
             ELSE LET tax_500k == DMul(threshold, D(1, 2))
                      excess == DSub(small.turnover, threshold)
                      tax_excess == DMul(excess, D(3, 2))
                      tax == DAdd(tax_500k, tax_excess)
                  IN  [w EXCEPT
                        !.steps = @ \o <<
                          CalculationStep(StepId("small", idx, "tax_500k"),
                              "tax_500k = min(turnover, 500000) * 0.01",
                              <<D(50000000, 2), D(1, 2)>>,
                              tax_500k, "RS.ge - Small Business Tax Regime"),
                          CalculationStep(StepId("small", idx, "tax_excess"),
                              "tax_excess = max(turnover - 500000, 0) * 0.03",
                              <<Fmt2(excess), D(3, 2)>>,
                              tax_excess, "RS.ge - Small Business Tax Regime"),
                          CalculationStep(StepId("small", idx, "tax_total"),
                              "total_tax = tax_500k + tax_excess",
                              <<Fmt2(tax_500k), Fmt2(tax_excess)>>,
                              tax, "RS.ge - Small Business Tax Regime") >>,
                        !.warnings = Append(@,
                            Warning("Small business", idx + 1,
                                    "Turnover exceeds 500,000 GEL threshold")),
                        !.total_tax = DAdd(@, tax)]

\* faulty variant: the brackets are applied to the turnover of the entry and
\* of the entry before it taken together
RECURSIVE SmallLoop_cumulative(_, _, _)
SmallLoop_cumulative(incomes, i, acc) ==
    IF i > Len(incomes) THEN acc
    ELSE SmallLoop_cumulative(incomes, i + 1,
            SmallEntry(acc, i - 1,
               IF i > 1 /\ incomes[i - 1].turnover.v > 0
               THEN [incomes[i] EXCEPT !.turnover = DAdd(@, incomes[i - 1].turnover)]
               ELSE incomes[i]))

RECURSIVE SmallLoop(_, _, _)
SmallLoop(incomes, i, acc) ==
    IF i > Len(incomes) THEN acc
    ELSE SmallLoop(incomes, i + 1, SmallEntry(acc, i - 1, incomes[i]))

calculate_small_business(small_incomes) ==
    LET acc == SmallLoop(small_incomes, 1, EmptyAcc)
    IN  RegimeResult("small_business", acc.total_tax, acc.steps, acc.warnings)

(***************************************************************************)
(* calculate_rental                                                        *)
(***************************************************************************)
\* the rate of one rental entry: 5% under the special regime, else 20%
\* faulty variant: the special regime is ignored
RentalRate_standard(rental) == D(20, 2)

RentalRate(rental) == IF rental.special_5_percent THEN D(5, 2) ELSE D(20, 2)

RentalEntry(acc, idx, rental) ==
    IF rental.monthly_rent.v <= 0 \/ rental.months <= 0 THEN acc
    ELSE LET annual_rent == DMul(rental.monthly_rent, DInt(rental.months))
             tax == DMul(annual_rent, RentalRate(rental))
         IN  [acc EXCEPT
               !.steps = @ \o <<
                  CalculationStep(StepId("rental", idx, "gross"),
                      "annual_rent = monthly_rent * months",
                      <<Fmt2(rental.monthly_rent), FmtRaw(DInt(rental.months))>>,
                      annual_rent, "RS.ge - Rental Income Tax"),
                  IF rental.special_5_percent
                  THEN CalculationStep(StepId("rental", idx, "tax"),
                           "tax = annual_rent * 0.05",
                           <<Fmt2(annual_rent), D(5, 2)>>,
                           tax, "RS.ge - Rental Income Special Regime (5%)")
                  ELSE CalculationStep(StepId("rental", idx, "tax"),
                           "tax = annual_rent * 0.20",
                           <<Fmt2(annual_rent), D(20, 2)>>,
                           tax, "RS.ge - Personal Income Tax") >>,
               !.total_tax = DAdd(@, tax)]

\* faulty variant: "total_tax = tax" in place of "total_tax += tax"
RECURSIVE RentalLoop_lastTaxOnly(_, _, _)
RentalLoop_lastTaxOnly(incomes, i, acc) ==
    IF i > Len(incomes) THEN acc
    ELSE LET a == RentalEntry(acc, i - 1, incomes[i])
         IN  RentalLoop_lastTaxOnly(incomes, i + 1,
                [a EXCEPT !.total_tax = DSub(a.total_tax, acc.total_tax)])

RECURSIVE RentalLoop(_, _, _)
RentalLoop(incomes, i, acc) ==
    IF i > Len(incomes) THEN acc
    ELSE RentalLoop(incomes, i + 1, RentalEntry(acc, i - 1, incomes[i]))

calculate_rental(rental_incomes) ==
    LET acc == RentalLoop(rental_incomes, 1, EmptyAcc)
    IN  RegimeResult("rental", acc.total_tax, acc.steps, <<>>)

(***************************************************************************)
(* calculate_capital_gains                                                 *)
(***************************************************************************)
\* the exemption test: a primary residence pays no capital-gains tax
\* faulty variant: no exemption
CgExempt_never(cg) == FALSE

CgExempt(cg) == cg.is_primary_residence

\* the loss test "if gain <= 0", made before the exemption test
\* faulty variant: a break-even sale is not a loss
CgLoss_strict(gain) == gain.v < 0

CgLoss(gain) == gain.v <= 0

CapitalGainsEntry(acc, idx, cg) ==
    IF cg.sale_price.v <= 0 \/ cg.purchase_price.v <= 0 THEN acc
    ELSE LET gain == DSub(cg.sale_price, cg.purchase_price)
             gainStep == CalculationStep(StepId("cg", idx, "gain"),
                             "gain = sale_price - purchase_price",
                             <<Fmt2(cg.sale_price), Fmt2(cg.purchase_price)>>,
                             gain, "RS.ge - Capital Gains Tax")
         IN  IF CgLoss(gain)
             THEN [acc EXCEPT !.steps = @ \o <<gainStep,
                      CalculationStep(StepId("cg", idx, "tax"),
                          "tax = 0 (loss, no tax)", <<Zero>>,
                          Zero, "RS.ge - Capital Gains Tax") >>]
             ELSE IF CgExempt(cg)
             THEN [acc EXCEPT !.steps = @ \o <<gainStep,
                      CalculationStep(StepId("cg", idx, "tax"),
                          "tax = 0 (exempt)", <<Zero>>,
                          Zero,
                          "RS.ge - Capital Gains Tax (Primary Residence Exemption)") >>]
             ELSE LET tax == DMul(gain, D(5, 2))
                  IN  [acc EXCEPT !.steps = @ \o <<gainStep,
                          CalculationStep(StepId("cg", idx, "tax"),
                              "tax = gain * 0.05",
                              <<Fmt2(gain), D(5, 2)>>,
                              tax, "RS.ge - Capital Gains Tax (5%)") >>,
                        !.total_tax = DAdd(@, tax)]

RECURSIVE CapitalGainsLoop(_, _, _)
CapitalGainsLoop(incomes, i, acc) ==
    IF i > Len(incomes) THEN acc
    ELSE CapitalGainsLoop(incomes, i + 1, CapitalGainsEntry(acc, i - 1, incomes[i]))

calculate_capital_gains(cg_incomes) ==
    LET acc == CapitalGainsLoop(cg_incomes, 1, EmptyAcc)
    IN  RegimeResult("capital_gains", acc.total_tax, acc.steps, <<>>)

(***************************************************************************)
(* calculate_dividends, calculate_interest                                 *)
(***************************************************************************)
\* sum(x.amount for x in incomes if x.amount > 0)
\* faulty variant: the filter "if x.amount > 0" is missing
RECURSIVE SumPositiveAmounts_unfiltered(_)
SumPositiveAmounts_unfiltered(incomes) ==
    IF incomes = <<>> THEN Zero
    ELSE DAdd(Head(incomes).amount, SumPositiveAmounts_unfiltered(Tail(incomes)))

RECURSIVE SumPositiveAmounts(_)
SumPositiveAmounts(incomes) ==
    IF incomes = <<>> THEN Zero
    ELSE LET rest == SumPositiveAmounts(Tail(incomes))
         IN  IF Head(incomes).amount.v > 0
             THEN DAdd(Head(incomes).amount, rest) ELSE rest

calculate_dividends(dividends_incomes) ==
    LET total_dividends == SumPositiveAmounts(dividends_incomes)
    IN  IF total_dividends.v > 0
        THEN LET tax == DMul(total_dividends, D(5, 2))
             IN  RegimeResult("dividends", tax,
                   << CalculationStep(StepId("dividends", -1, "total"),
                          "total = sum(dividends)", <<Fmt2(total_dividends)>>,
                          total_dividends, "RS.ge - Dividends Tax"),
                      CalculationStep(StepId("dividends", -1, "tax"),
                          "tax = total * 0.05", <<Fmt2(total_dividends), D(5, 2)>>,
                          tax, "RS.ge - Dividends Tax (5%)") >>,
                   <<>>)
        ELSE RegimeResult("dividends", Zero, <<>>, <<>>)

calculate_interest(interest_incomes) ==
    LET total_interest == SumPositiveAmounts(interest_incomes)
    IN  IF total_interest.v > 0
        THEN LET tax == DMul(total_interest, D(5, 2))
             IN  RegimeResult("interest", tax,
                   << CalculationStep(StepId("interest", -1, "total"),
                          "total = sum(interest)", <<Fmt2(total_interest)>>,
                          total_interest, "RS.ge - Interest Income Tax"),
                      CalculationStep(StepId("interest", -1, "tax"),
                          "tax = total * 0.05", <<Fmt2(total_interest), D(5, 2)>>,
                          tax, "RS.ge - Interest Income Tax (5%)") >>,
                   <<>>)
        ELSE RegimeResult("interest", Zero, <<>>, <<>>)

(***************************************************************************)
(* calculate_property_tax                                                  *)
(***************************************************************************)
PropertyThreshold == 65000

EstimatedValuePerUnit == 100000

\* tax_rate = prop.tax_rate if ... prop.tax_rate > 0 else 0.01
\* faulty variant: the entry's own rate is ignored
PropertyRate_default(prop) == D(1, 2)

PropertyRate(prop) == IF prop.tax_rate.v > 0 THEN prop.tax_rate ELSE D(1, 2)

\* the exemption test "if prop.family_income <= threshold" (threshold = 65000.0)
\* faulty variant: the entry's own income_threshold decides
PropertyExempt_ownThreshold(prop, threshold) ==
    DLe(prop.family_income, prop.income_threshold)

PropertyExempt(prop, threshold) == DLe(prop.family_income, threshold)

\* one step per property, only when there is more than one property value
\* faulty variant: the per-property steps are named like the entry's tax step
RECURSIVE PropertyBreakdown_namedTax(_, _, _, _)
PropertyBreakdown_namedTax(idx, values, j, tax_rate) ==
    IF j > Len(values) THEN <<>>
    ELSE << CalculationStep(StepId2("property", idx, "tax", j - 1),
                "tax = property_value x tax_rate",
                <<Fmt2(values[j]), FmtRaw(tax_rate)>>,
                DMul(values[j], tax_rate), "RS.ge - Property Tax") >>
         \o PropertyBreakdown_namedTax(idx, values, j + 1, tax_rate)

RECURSIVE PropertyBreakdown(_, _, _, _)
PropertyBreakdown(idx, values, j, tax_rate) ==
    IF j > Len(values) THEN <<>>
    ELSE << CalculationStep(StepId2("property", idx, "prop", j - 1),
                "tax = property_value x tax_rate",
                <<Fmt2(values[j]), FmtRaw(tax_rate)>>,
                DMul(values[j], tax_rate), "RS.ge - Property Tax") >>
         \o PropertyBreakdown(idx, values, j + 1, tax_rate)

\* the two steps recorded first for an entry: the income check and the count
\* faulty variant: the count step is missing
PropertyHeadSteps_checkOnly(idx, prop, threshold) ==
    << CalculationStep(StepId("property", idx, "check"),
           "family_income > 65,000",
           <<Fmt2(prop.family_income), threshold>>,
           prop.family_income, "RS.ge - Property Tax") >>

PropertyHeadSteps(idx, prop, threshold) ==
    << CalculationStep(StepId("property", idx, "check"),
           "family_income > 65,000",
           <<Fmt2(prop.family_income), threshold>>,
           prop.family_income, "RS.ge - Property Tax"),
       CalculationStep(StepId("property", idx, "properties"),
           "properties = count",
           <<FmtRaw(DInt(prop.properties))>>,
           DInt(prop.properties), "RS.ge - Property Tax") >>

PropertyEntry(acc, idx, prop) ==
    IF prop.family_income.v <= 0 THEN acc
    ELSE LET threshold == DInt(PropertyThreshold)
             head == PropertyHeadSteps(idx, prop, threshold)
         IN  IF PropertyExempt(prop, threshold)
             THEN [acc EXCEPT !.steps = @ \o head \o <<
                      CalculationStep(StepId("property", idx, "tax"),
                          "tax = 0 (below threshold exemption)",
                          <<Zero, Fmt2(prop.family_income), threshold>>,
                          Zero, "RS.ge - Property Tax (Threshold Exemption)") >>]
             ELSE LET tax_rate == PropertyRate(prop)
                  IN  IF Len(prop.property_values) > 0
                      THEN LET total_property_value == DSum(prop.property_values)
                               property_tax == DMul(total_property_value, tax_rate)
                           IN  [acc EXCEPT
                                 !.steps = @ \o head \o <<
                                   CalculationStep(StepId("property", idx, "total_value"),
                                       "total_value = sum(property_values)",
                                       <<Fmt2(total_property_value)>>,
                                       total_property_value, "RS.ge - Property Tax"),
                                   CalculationStep(StepId("property", idx, "tax"),
                                       "tax = total_value x tax_rate",
                                       <<Fmt2(total_property_value), FmtRaw(tax_rate)>>,
                                       property_tax, "RS.ge - Property Tax") >>
                                   \o (IF Len(prop.property_values) > 1
                                       THEN PropertyBreakdown(idx, prop.property_values,
                                                              1, tax_rate)
                                       ELSE <<>>),
                                 !.total_tax = DAdd(@, property_tax)]
                      ELSE LET property_tax ==
                                 DMul(DMul(DInt(prop.properties),
                                           DInt(EstimatedValuePerUnit)), tax_rate)
                           IN  [acc EXCEPT
                                 !.steps = @ \o head \o <<
                                   CalculationStep(StepId("property", idx, "estimate"),
                                       "tax ~ properties x estimated_value x tax_rate",
                                       <<FmtRaw(DInt(prop.properties)),
                                         DInt(EstimatedValuePerUnit), FmtRaw(tax_rate)>>,
                                       property_tax,
                                       "RS.ge - Property Tax (Estimated - provide property values for accurate calculation)") >>,
                                 !.total_tax = DAdd(@, property_tax)]

RECURSIVE PropertyLoop(_, _, _)
PropertyLoop(inputs, i, acc) ==
    IF i > Len(inputs) THEN acc
    ELSE PropertyLoop(inputs, i + 1, PropertyEntry(acc, i - 1, inputs[i]))

calculate_property_tax(property_inputs) ==
    LET acc == PropertyLoop(property_inputs, 1, EmptyAcc)
    IN  RegimeResult("property_tax", acc.total_tax, acc.steps, <<>>)

(***************************************************************************)
(* calculate_all                                                           *)
(***************************************************************************)
\* "if profile.<category>:" - the list is non-empty
\* faulty variant: a single entry does not count
Present_taxed(list) == Len(list) > 1

Present(list) == list # <<>>

\* results = []; one append per non-empty category, in this order
RegimeResults(p) ==
       (IF Present(p.salary) THEN <<calculate_salary(p.salary)>> ELSE <<>>)
    \o (IF Present(p.micro_business)
          THEN <<calculate_micro_business(p.micro_business)>> ELSE <<>>)
    \o (IF Present(p.small_business)
          THEN <<calculate_small_business(p.small_business)>> ELSE <<>>)
    \o (IF Present(p.rental) THEN <<calculate_rental(p.rental)>> ELSE <<>>)
    \o (IF Present(p.capital_gains)
          THEN <<calculate_capital_gains(p.capital_gains)>> ELSE <<>>)
    \o (IF Present(p.dividends) THEN <<calculate_dividends(p.dividends)>> ELSE <<>>)
    \o (IF Present(p.interest) THEN <<calculate_interest(p.interest)>> ELSE <<>>)
    \o (IF Present(p.property_tax)
          THEN <<calculate_property_tax(p.property_tax)>> ELSE <<>>)

\* total_tax = sum(r.tax for r in results)
\* faulty variant: the last regime is left out of the sum
RECURSIVE SumTax_dropLast(_)
SumTax_dropLast(results) ==
    IF Len(results) <= 1 THEN (IF results = <<>> THEN Zero ELSE Head(results).tax)
    ELSE DAdd(Head(results).tax,
              IF Len(results) = 2 THEN Zero ELSE SumTax_dropLast(Tail(results)))

RECURSIVE SumTax(_)
SumTax(results) ==
    IF results = <<>> THEN Zero ELSE DAdd(Head(results).tax, SumTax(Tail(results)))

\* what one entry of a category adds to total_income
SalaryIncomeOf(salary) == DMul(salary.monthly_gross, DInt(salary.months))

TurnoverOf(business) == business.turnover

RentalIncomeOf(rental) == DMul(rental.monthly_rent, DInt(rental.months))

\* faulty variant: a loss lowers total_income
CgIncomeOf_net(cg) == DSub(cg.sale_price, cg.purchase_price)

CgIncomeOf(cg) ==
    IF DGt(cg.sale_price, cg.purchase_price)
    THEN DSub(cg.sale_price, cg.purchase_price) ELSE Zero

AmountOf(x) == x.amount

\* total_income = 0.0, then one "total_income +=" per entry of seven lists
TotalIncome(p) ==
    DAdd(DSum([i \in 1..Len(p.salary) |-> SalaryIncomeOf(p.salary[i])]),
    DAdd(DSum([i \in 1..Len(p.micro_business) |-> TurnoverOf(p.micro_business[i])]),
    DAdd(DSum([i \in 1..Len(p.small_business) |-> TurnoverOf(p.small_business[i])]),
    DAdd(DSum([i \in 1..Len(p.rental) |-> RentalIncomeOf(p.rental[i])]),
    DAdd(DSum([i \in 1..Len(p.capital_gains) |-> CgIncomeOf(p.capital_gains[i])]),
    DAdd(DSum([i \in 1..Len(p.dividends) |-> AmountOf(p.dividends[i])]),
         DSum([i \in 1..Len(p.interest) |-> AmountOf(p.interest[i])])))))))

\* effective_rate = (total_tax / total_income) if total_income > 0 else 0.0
\* faulty variant: the guard looks at total_tax
EffectiveRate_taxGuard(total_tax, total_income) ==
    IF total_tax.v > 0 THEN DDiv(total_tax, total_income) ELSE QuotZero

EffectiveRate(total_tax, total_income) ==
    IF total_income.v > 0 THEN DDiv(total_tax, total_income) ELSE QuotZero

\* faulty variant: a non-resident's regimes are computed but not summed
calculate_all_nonResidentUntaxed(p) ==
    LET results == RegimeResults(p)
        total_tax == IF p.residency = "NON_RESIDENT" THEN Zero ELSE SumTax(results)
        total_income == TotalIncome(p)
    IN  [year |-> p.year,
         rules_version |-> "2025.01",
         residency |-> p.residency,
         total_tax |-> total_tax,
         effective_rate |-> EffectiveRate(total_tax, total_income),
         by_regime |-> results,
         total_income |-> total_income]

calculate_all(p) ==
    LET results == RegimeResults(p)
        total_tax == SumTax(results)
        total_income == TotalIncome(p)
    IN  [year |-> p.year,
         rules_version |-> "2025.01",
         residency |-> p.residency,
         total_tax |-> total_tax,
         effective_rate |-> EffectiveRate(total_tax, total_income),
         by_regime |-> results,
         total_income |-> total_income]

(***************************************************************************)
(* Inputs: the entries a caller may put into a profile.  The dataclasses   *)
(* accept any number; the calculators skip entries with a non-positive     *)
(* amount or period, so zero and negative values are inputs too.  833.333  *)
(* is an amount with more than two decimals (the importers divide a yearly *)
(* amount by the months); 500,000.20 is a turnover just above the          *)
(* small-business threshold.                                               *)
(***************************************************************************)
MaxEntries == 2

Categories ==
    <<"salary", "micro_business", "small_business", "rental",
      "capital_gains", "dividends", "interest", "property_tax">>

SalaryIncome(monthly_gross, months, rate) ==
    [monthly_gross |-> monthly_gross, months |-> months,
     pension_employee_rate |-> rate]

MicroBusinessIncome(turnover, no_employees, activity_allowed) ==
    [turnover |-> turnover, no_employees |-> no_employees,
     activity_allowed |-> activity_allowed]

SmallBusinessIncome(turnover, registered) ==
    [turnover |-> turnover, registered |-> registered]

RentalIncome(monthly_rent, months, special) ==
    [monthly_rent |-> monthly_rent, months |-> months, special_5_percent |-> special]

CapitalGainsIncome(purchase_price, sale_price, primary) ==
    [purchase_price |-> purchase_price, sale_price |-> sale_price,
     is_primary_residence |-> primary]

AmountIncome(amount) == [amount |-> amount]

PropertyTaxInput(family_income, properties, property_values, tax_rate, income_threshold) ==
    [family_income |-> family_income, properties |-> properties,
     property_values |-> property_values, tax_rate |-> tax_rate,
     income_threshold |-> income_threshold]

SalaryEntries ==
    { SalaryIncome(DInt(3000), 12, D(2, 2)),
      SalaryIncome(DInt(3000), 12, D(4, 2)),
      SalaryIncome(D(833333, 3), 12, D(2, 2)),
      SalaryIncome(DInt(0), 12, D(2, 2)),
      SalaryIncome(DInt(-500), 12, D(2, 2)),
      SalaryIncome(DInt(3000), 0, D(2, 2)),
      SalaryIncome(DInt(3000), -3, D(2, 2)) }

MicroEntries ==
    { MicroBusinessIncome(DInt(30000), ne, aa) : ne \in BOOLEAN, aa \in BOOLEAN }
    \cup { MicroBusinessIncome(DInt(0), FALSE, FALSE) }

SmallEntries ==
    { SmallBusinessIncome(DInt(300000), TRUE),
      SmallBusinessIncome(DInt(500000), TRUE),
      SmallBusinessIncome(D(50000020, 2), TRUE),
      SmallBusinessIncome(DInt(600000), TRUE),
      SmallBusinessIncome(DInt(600000), FALSE),
      SmallBusinessIncome(DInt(0), FALSE),
      SmallBusinessIncome(DInt(-1000), TRUE) }

RentalEntries ==
    { RentalIncome(DInt(800), 12, TRUE),
      RentalIncome(DInt(800), 12, FALSE),
      RentalIncome(DInt(0), 12, TRUE),
      RentalIncome(DInt(800), 0, FALSE),
      RentalIncome(DInt(-800), 12, FALSE) }

CapitalGainsEntries ==
    { CapitalGainsIncome(DInt(100000), DInt(120000), FALSE),
      CapitalGainsIncome(DInt(100000), DInt(120000), TRUE),
      CapitalGainsIncome(DInt(100000), DInt(80000), FALSE),
      CapitalGainsIncome(DInt(100000), DInt(100000), TRUE),
      CapitalGainsIncome(DInt(0), DInt(50000), FALSE),
      CapitalGainsIncome(DInt(100000), DInt(-5000), FALSE) }

DividendsEntries == { AmountIncome(DInt(5000)), AmountIncome(D(125050, 2)),
                      AmountIncome(DInt(0)), AmountIncome(DInt(-40000)) }

InterestEntries == { AmountIncome(DInt(2000)), AmountIncome(DInt(0)),
                     AmountIncome(DInt(-3000)) }

PropertyEntries ==
    { PropertyTaxInput(DInt(50000), 1, <<>>, D(1, 2), DInt(40000)),
      PropertyTaxInput(DInt(65000), 1, <<DInt(200000)>>, D(1, 2), DInt(40000)),
      PropertyTaxInput(DInt(80000), 2, <<>>, D(1, 2), DInt(40000)),
      PropertyTaxInput(DInt(80000), 2, <<>>, DInt(0), DInt(40000)),
      PropertyTaxInput(DInt(80000), 1, <<DInt(200000)>>, D(2, 2), DInt(40000)),
      PropertyTaxInput(DInt(80000), 2, <<DInt(150000), D(25000050, 2)>>, D(1, 2), DInt(40000)),
      PropertyTaxInput(DInt(0), 1, <<>>, D(1, 2), DInt(40000)),
      PropertyTaxInput(DInt(50000), 1, <<DInt(200000)>>, D(1, 2), DInt(40000)),
      PropertyTaxInput(DInt(80000), 1, <<DInt(200000)>>, D(1, 2), DInt(100000)) }

EntriesOf(cat) ==
    CASE cat = "salary"         -> SalaryEntries
      [] cat = "micro_business" -> MicroEntries
      [] cat = "small_business" -> SmallEntries
      [] cat = "rental"         -> RentalEntries
      [] cat = "capital_gains"  -> CapitalGainsEntries
      [] cat = "dividends"      -> DividendsEntries
      [] cat = "interest"       -> InterestEntries
      [] cat = "property_tax"   -> PropertyEntries

CategorySet == { Categories[i] : i \in 1..Len(Categories) }

(***************************************************************************)
(* The profile and its caller.  UserProfile() starts with eight empty      *)
(* lists; the caller appends or removes an entry and invokes calculate_all *)
(* on the profile.                                                         *)
(***************************************************************************)
UserProfile ==
    [year |-> 2025, residency |-> "RESIDENT", family_income |-> Zero,
     salary |-> <<>>, micro_business |-> <<>>, small_business |-> <<>>,
     rental |-> <<>>, capital_gains |-> <<>>, dividends |-> <<>>,
     interest |-> <<>>, property_tax |-> <<>>]

RECURSIVE CountEntries(_, _)
CountEntries(p, i) ==
    IF i > Len(Categories) THEN 0
    ELSE Len(p[Categories[i]]) + CountEntries(p, i + 1)

TotalEntries(p) == CountEntries(p, 1)

\* list.pop(idx) with idx = i - 1
RemoveAt(list, i) == SubSeq(list, 1, i - 1) \o SubSeq(list, i + 1, Len(list))

MaxGap == 2

NoMemo ==
    [taken |-> FALSE, profile |-> UserProfile,
     result |-> calculate_all(UserProfile), gap |-> 0]

\* one more invocation since the observed one (counted up to MaxGap)
Tick(m) ==
    IF m.taken /\ m.gap < MaxGap THEN [m EXCEPT !.gap = @ + 1] ELSE m

\* no list object yet, no result kept
EmptyStore ==
    [heap |-> [results |-> <<>>, steps |-> <<>>, warnings |-> <<>>],
     returned |-> <<>>]

\* an invocation that has not been made: no position, no locals
NoFrame ==
    [pc |-> "idle", arg |-> "none", start |-> UserProfile, k |-> 0, i |-> 0,
     results |-> <<>>, total_tax |-> Zero, total_income |-> Zero, out |-> <<>>,
     overlap |-> FALSE]

\* the two callers that may have an invocation in progress
Pids == {"a", "b"}

NoCalls ==
    [frame |-> [pid \in Pids |-> NoFrame], acc |-> [pid \in Pids |-> EmptyAcc]]

\* the profiles table before any save, and no operation made yet; saved and
\* present are history fields: the profile object last passed to save_profile
\* under each name, and whether the name was in the table before the last
\* operation
NoReturn ==
    [op |-> "none", name |-> "", id |-> 0, profile |-> <<>>, deleted |-> FALSE,
     listing |-> <<>>, present |-> FALSE]

\* the names the caller saves profiles under
Names == {"n", "m"}

NoDb ==
    [rows |-> <<>>, seq |-> 0, ret |-> NoReturn, saved |-> [nm \in Names |-> <<>>]]

\* no CSV row written, no import made
NoImport == [rows |-> <<>>, ret |-> <<>>]

Init ==
    /\ profile = UserProfile
    /\ result = calculate_all(UserProfile)
    /\ memo = NoMemo
    /\ store = EmptyStore
    /\ calls = NoCalls
    /\ db = NoDb
    /\ imported = NoImport

\* profile.<cat>.append(e); result = calculate_all(profile)
AddEntry(cat, e) ==
    /\ TotalEntries(profile) < MaxEntries
    /\ profile' = [profile EXCEPT ![cat] = Append(@, e)]
    /\ result' = calculate_all(profile')
    /\ memo' = Tick(memo)
    /\ UNCHANGED <<store, calls, db, imported>>

\* the list's pop(idx), then the recomputation
RemoveEntry(cat, i) ==
    /\ i \in 1..Len(profile[cat])
    /\ profile' = [profile EXCEPT ![cat] = RemoveAt(@, i)]
    /\ result' = calculate_all(profile')
    /\ memo' = Tick(memo)
    /\ UNCHANGED <<store, calls, db, imported>>

\* profile.<cat> = []; result = calculate_all(profile)
ClearCategory(cat) ==
    /\ profile[cat] # <<>>
    /\ profile' = [profile EXCEPT ![cat] = <<>>]
    /\ result' = calculate_all(profile')
    /\ memo' = Tick(memo)
    /\ UNCHANGED <<store, calls, db, imported>>

\* calculate_all invoked again on the unmodified profile
Recalculate ==
    /\ result' = calculate_all(profile)
    /\ memo' = Tick(memo)
    /\ UNCHANGED <<profile, store, calls, db, imported>>

Next ==
    \/ \E cat \in CategorySet : \E e \in EntriesOf(cat) : AddEntry(cat, e)
    \/ \E cat \in CategorySet : \E i \in 1..MaxEntries + 1 : RemoveEntry(cat, i)
    \/ \E cat \in CategorySet : ClearCategory(cat)
    \/ Recalculate

Spec == Init /\ [][Next]_vars

(***************************************************************************)
(* SpecObserved: the same caller over a few entries, with an observer that *)
(* keeps the profile and the result of one invocation to compare later     *)
(* invocations with.                                                       *)
(***************************************************************************)
ObservedEntriesOf(cat) ==
    CASE cat = "salary" -> { SalaryIncome(DInt(3000), 12, D(2, 2)) }
      [] cat = "small_business" -> { SmallBusinessIncome(DInt(600000), FALSE) }
      [] cat = "dividends" -> { AmountIncome(DInt(5000)), AmountIncome(D(125050, 2)) }
      [] cat = "property_tax" ->
             { PropertyTaxInput(DInt(80000), 2, <<>>, D(1, 2), DInt(40000)) }
      [] OTHER -> {}

Observe ==
    /\ ~memo.taken
    /\ memo' = [taken |-> TRUE, profile |-> profile, result |-> result, gap |-> 0]
    /\ UNCHANGED <<profile, result, store, calls, db, imported>>

NextObserved ==
    \/ \E cat \in CategorySet : \E e \in ObservedEntriesOf(cat) : AddEntry(cat, e)
    \/ \E cat \in CategorySet : \E i \in 1..MaxEntries + 1 : RemoveEntry(cat, i)
    \/ \E cat \in CategorySet : ClearCategory(cat)
    \/ Recalculate
    \/ Observe

SpecObserved == Init /\ [][NextObserved]_vars

(***************************************************************************)
(* SpecHeader: the caller also sets the fields of the profile that are not *)
(* income lists (the tax year and the residency chosen in the sidebar, the *)
(* profile-level family_income the importers fill in), over a few entries. *)
(***************************************************************************)
Years == {2025, 2026}

Residencies == {"RESIDENT", "NON_RESIDENT"}

FamilyIncomes == {Zero, DInt(50000), DInt(177000)}

HeaderEntriesOf(cat) ==
    CASE cat = "salary" -> { SalaryIncome(DInt(3000), 12, D(2, 2)) }
      [] cat = "dividends" -> { AmountIncome(DInt(5000)) }
      [] cat = "property_tax" ->
             { PropertyTaxInput(DInt(50000), 1, <<DInt(200000)>>, D(1, 2), DInt(40000)),
               PropertyTaxInput(DInt(65000), 1, <<DInt(200000)>>, D(1, 2), DInt(40000)),
               PropertyTaxInput(DInt(80000), 1, <<DInt(200000)>>, D(1, 2), DInt(100000)),
               PropertyTaxInput(DInt(80000), 2, <<>>, D(1, 2), DInt(40000)),
               PropertyTaxInput(DInt(0), 1, <<>>, D(1, 2), DInt(40000)) }
      [] OTHER -> {}

\* UserProfile(year=tax_year, ...); result = calculate_all(profile)
SetYear(y) ==
    /\ y # profile.year
    /\ profile' = [profile EXCEPT !.year = y]
    /\ result' = calculate_all(profile')
    /\ memo' = Tick(memo)
    /\ UNCHANGED <<store, calls, db, imported>>

\* UserProfile(residency=..., ...); result = calculate_all(profile)
SetResidency(r) ==
    /\ r # profile.residency
    /\ profile' = [profile EXCEPT !.residency = r]
    /\ result' = calculate_all(profile')
    /\ memo' = Tick(memo)
    /\ UNCHANGED <<store, calls, db, imported>>

\* UserProfile(family_income=family_income, ...); result = calculate_all(profile)
SetFamilyIncome(f) ==
    /\ f # profile.family_income
    /\ profile' = [profile EXCEPT !.family_income = f]
    /\ result' = calculate_all(profile')
    /\ memo' = Tick(memo)
    /\ UNCHANGED <<store, calls, db, imported>>

NextHeader ==
    \/ \E cat \in CategorySet : \E e \in HeaderEntriesOf(cat) : AddEntry(cat, e)
    \/ \E cat \in CategorySet : \E i \in 1..MaxEntries + 1 : RemoveEntry(cat, i)
    \/ \E cat \in CategorySet : ClearCategory(cat)
    \/ Recalculate
    \/ \E y \in Years : SetYear(y)
    \/ \E r \in Residencies : SetResidency(r)
    \/ \E f \in FamilyIncomes : SetFamilyIncome(f)

SpecHeader == Init /\ [][NextHeader]_vars

(***************************************************************************)
(* SpecObjects: the objects behind the results.  A Python list is an       *)
(* object with an identity; a result refers to its by_regime list, a       *)
(* RegimeResult to its steps list and its warnings list.  store.heap holds *)
(* the list objects by kind and address (their position in the sequence),  *)
(* store.returned the results the caller keeps (result1, result2, ...),    *)
(* with addresses in place of lists.                                       *)
(***************************************************************************)
MaxKept == 2

\* "steps = []", "warnings = []", "results = []": a new, empty list object
\* faulty variant: one list object per kind, shared by all invocations
NewList_shared(lists) ==
    IF lists = <<>> THEN [lists |-> <<<<>>>>, addr |-> 1]
    ELSE [lists |-> lists, addr |-> 1]

NewList(lists) == [lists |-> Append(lists, <<>>), addr |-> Len(lists) + 1]

\* list.append(item), for every item of a sequence in turn
ListExtend(lists, addr, items) == [lists EXCEPT ![addr] = @ \o items]

\* one calculator's invocation: its steps list, its warnings list and the
\* RegimeResult object referring to them (r: what the calculator computes)
RegimeObject(heap, r) ==
    LET s == NewList(heap.steps)
        w == NewList(heap.warnings)
    IN  [heap |-> [heap EXCEPT
                     !.steps = ListExtend(s.lists, s.addr, r.steps),
                     !.warnings = ListExtend(w.lists, w.addr, r.warnings)],
         obj |-> [regime_id |-> r.regime_id, tax |-> r.tax,
                  steps |-> s.addr, warnings |-> w.addr]]

\* results.append(calculate_<regime>(...)) for the regimes from position k on
RECURSIVE AppendRegimes(_, _, _, _)
AppendRegimes(heap, addr, regimes, k) ==
    IF k > Len(regimes) THEN heap
    ELSE LET x == RegimeObject(heap, regimes[k])
         IN  AppendRegimes(
                 [x.heap EXCEPT !.results = ListExtend(@, addr, <<x.obj>>)],
                 addr, regimes, k + 1)

\* calculate_all with its objects: results = [], the appends, and the
\* CalculationResult referring to the results list (res: what calculate_all
\* computes), kept by the caller next to the results it has
CalculateObjects(st, res) ==
    LET l == NewList(st.heap.results)
    IN  [heap |-> AppendRegimes([st.heap EXCEPT !.results = l.lists], l.addr,
                                res.by_regime, 1),
         returned |-> Append(st.returned, [res EXCEPT !.by_regime = l.addr])]

\* what a reader of a returned result sees: the lists behind the addresses
Deref(heap, ref) ==
    [ref EXCEPT !.by_regime =
        [k \in 1..Len(heap.results[ref.by_regime]) |->
            LET o == heap.results[ref.by_regime][k]
            IN  [regime_id |-> o.regime_id, tax |-> o.tax,
                 steps |-> heap.steps[o.steps],
                 warnings |-> heap.warnings[o.warnings]]]]

ObjectEntriesOf(cat) ==
    CASE cat = "salary" -> { SalaryIncome(DInt(3000), 12, D(2, 2)) }
      [] cat = "small_business" -> { SmallBusinessIncome(DInt(600000), FALSE) }
      [] OTHER -> {}

\* result_n = calculate_all(profile), the result kept by the caller
Calculate ==
    /\ Len(store.returned) < MaxKept
    /\ store' = CalculateObjects(store, calculate_all(profile))
    /\ result' = Deref(store'.heap, store'.returned[Len(store'.returned)])
    /\ memo' = Tick(memo)
    /\ UNCHANGED <<profile, calls, db, imported>>

NextObjects ==
    \/ \E cat \in CategorySet : \E e \in ObjectEntriesOf(cat) : AddEntry(cat, e)
    \/ \E cat \in CategorySet : \E i \in 1..MaxEntries + 1 : RemoveEntry(cat, i)
    \/ \E cat \in CategorySet : ClearCategory(cat)
    \/ Calculate

SpecObjects == Init /\ [][NextObjects]_vars

(***************************************************************************)
(* SpecConcurrent, SpecEdited: calculate_all taken apart into its steps.   *)
(* An invocation (a frame) is given a profile object, not a copy of it:    *)
(* "session" is the caller's profile, "other" the profile of another       *)
(* caller.  Its position is pc (and k, the category; i, the entry), its    *)
(* locals are results, total_tax, total_income and - while one calculator  *)
(* runs - that calculator's steps, total_tax and warnings (calls.acc).     *)
(* One step is one evaluation of "if profile.<cat>:", one iteration of a   *)
(* calculator's loop, the sum of the regime taxes, one of the seven income *)
(* loops, or the construction of the CalculationResult.  Every step reads  *)
(* the lists of the profile object as they are at that moment.  start is a *)
(* history field: the content of the profile when the invocation began;    *)
(* overlap is another: the invocation has made a loop iteration while      *)
(* another invocation was inside a calculator's loop.                      *)
(***************************************************************************)
OtherProfile ==
    [UserProfile EXCEPT
        !.small_business = <<SmallBusinessIncome(DInt(300000), TRUE)>>,
        !.dividends = <<AmountIncome(DInt(5000))>>]

Argument(arg) == IF arg = "session" THEN profile ELSE OtherProfile

ConcurrentEntriesOf(cat) ==
    CASE cat = "salary" -> { SalaryIncome(DInt(3000), 12, D(2, 2)) }
      [] cat = "small_business" -> { SmallBusinessIncome(DInt(600000), FALSE) }
      [] cat = "dividends" -> { AmountIncome(DInt(5000)) }
      [] OTHER -> {}

\* steps, total_tax and warnings are locals of the running calculator
\* faulty variant: one module-level accumulator for every invocation
AccOf_global(pid) == "a"

AccOf(pid) == pid

\* the body of the loop of the category's calculator
EntryOf(cat, acc, idx, e) ==
    CASE cat = "salary" -> SalaryEntry(acc, idx, e)
      [] cat = "micro_business" -> MicroEntry(acc, idx, e)
      [] cat = "small_business" -> SmallEntry(acc, idx, e)
      [] cat = "rental" -> RentalEntry(acc, idx, e)
      [] cat = "capital_gains" -> CapitalGainsEntry(acc, idx, e)
      [] cat = "property_tax" -> PropertyEntry(acc, idx, e)

\* the "return RegimeResult(...)" of the category's calculator
ReturnOf(cat, acc) ==
    RegimeResult(cat, acc.total_tax, acc.steps,
                 IF cat \in {"micro_business", "small_business"}
                 THEN acc.warnings ELSE <<>>)

\* one "for x in profile.<cat>: total_income += ..." loop
ListIncome(cat, list) ==
    CASE cat = "salary" -> DSum([i \in 1..Len(list) |-> SalaryIncomeOf(list[i])])
      [] cat \in {"micro_business", "small_business"} ->
             DSum([i \in 1..Len(list) |-> TurnoverOf(list[i])])
      [] cat = "rental" -> DSum([i \in 1..Len(list) |-> RentalIncomeOf(list[i])])
      [] cat = "capital_gains" -> DSum([i \in 1..Len(list) |-> CgIncomeOf(list[i])])
      [] cat \in {"dividends", "interest"} ->
             DSum([i \in 1..Len(list) |-> AmountOf(list[i])])

\* on to the next "if profile.<cat>:", or to the sum after the last one
NextRegime(f) ==
    IF f.k < Len(Categories) THEN [f EXCEPT !.pc = "regime", !.k = @ + 1, !.i = 0]
    ELSE [f EXCEPT !.pc = "total_tax", !.k = 0, !.i = 0]

InProgress(f) == f.pc \notin {"idle", "done"}

\* result = calculate_all(<arg>): results = []
Call(pid, arg) ==
    /\ ~InProgress(calls.frame[pid])
    /\ calls' = [calls EXCEPT !.frame[pid] =
                    [NoFrame EXCEPT !.pc = "regime", !.arg = arg,
                                    !.start = Argument(arg), !.k = 1]]
    /\ UNCHANGED <<profile, result, memo, store, db, imported>>

\* "if profile.<cat>:" - an empty list is passed over, dividends and interest
\* are summed up at once, any other calculator starts with its empty locals
BeginRegime(pid) ==
    LET f == calls.frame[pid]
        cat == Categories[f.k]
        list == Argument(f.arg)[cat]
    IN  /\ f.pc = "regime"
        /\ calls' =
             IF ~Present(list) THEN [calls EXCEPT !.frame[pid] = NextRegime(f)]
             ELSE IF cat = "dividends"
             THEN [calls EXCEPT !.frame[pid] = NextRegime(
                      [f EXCEPT !.results = Append(@, calculate_dividends(list))])]
             ELSE IF cat = "interest"
             THEN [calls EXCEPT !.frame[pid] = NextRegime(
                      [f EXCEPT !.results = Append(@, calculate_interest(list))])]
             ELSE [calls EXCEPT !.frame[pid].pc = "entry", !.frame[pid].i = 1,
                                !.acc[AccOf(pid)] = EmptyAcc]
        /\ UNCHANGED <<profile, result, memo, store, db, imported>>

\* one iteration of "for idx, x in enumerate(<list>):", or the end of the
\* loop with the calculator's return and "results.append(...)"
EntryStep(pid) ==
    LET f == calls.frame[pid]
        cat == Categories[f.k]
        list == Argument(f.arg)[cat]
        o == AccOf(pid)
    IN  /\ f.pc = "entry"
        /\ calls' =
             IF f.i > Len(list)
             THEN [calls EXCEPT
                     !.frame[pid] = NextRegime(
                        [f EXCEPT !.results = Append(@, ReturnOf(cat, calls.acc[o]))]),
                     !.acc[o] = EmptyAcc]
             ELSE [calls EXCEPT
                     !.frame[pid].i = @ + 1,
                     !.frame[pid].overlap =
                         @ \/ \E q \in Pids \ {pid} : calls.frame[q].pc = "entry",
                     !.acc[o] = EntryOf(cat, @, f.i - 1, list[f.i])]
        /\ UNCHANGED <<profile, result, memo, store, db, imported>>

\* total_tax = sum(r.tax for r in results); total_income = 0.0
TotalTaxStep(pid) ==
    LET f == calls.frame[pid]
    IN  /\ f.pc = "total_tax"
        /\ calls' = [calls EXCEPT !.frame[pid] =
                        [f EXCEPT !.pc = "income", !.k = 1,
                                  !.total_tax = SumTax(f.results),
                                  !.total_income = Zero]]
        /\ UNCHANGED <<profile, result, memo, store, db, imported>>

\* one of the seven loops that add to total_income
IncomeStep(pid) ==
    LET f == calls.frame[pid]
        cat == Categories[f.k]
        list == Argument(f.arg)[cat]
    IN  /\ f.pc = "income"
        /\ calls' = [calls EXCEPT !.frame[pid] =
                        [f EXCEPT !.total_income = DAdd(@, ListIncome(cat, list)),
                                  !.k = IF f.k < 7 THEN f.k + 1 ELSE 0,
                                  !.pc = IF f.k < 7 THEN "income" ELSE "rate"]]
        /\ UNCHANGED <<profile, result, memo, store, db, imported>>

\* effective_rate and "return CalculationResult(...)"
Return(pid) ==
    LET f == calls.frame[pid]
        p == Argument(f.arg)
    IN  /\ f.pc = "rate"
        /\ calls' = [calls EXCEPT !.frame[pid] =
                        [f EXCEPT !.pc = "done", !.out = <<
                            [year |-> p.year,
                             rules_version |-> "2025.01",
                             residency |-> p.residency,
                             total_tax |-> f.total_tax,
                             effective_rate |->
                                 EffectiveRate(f.total_tax, f.total_income),
                             by_regime |-> f.results,
                             total_income |-> f.total_income] >>]]
        /\ UNCHANGED <<profile, result, memo, store, db, imported>>

\* profile.<cat>.append(e) alone
ListAppend(cat, e) ==
    /\ TotalEntries(profile) < MaxEntries
    /\ profile' = [profile EXCEPT ![cat] = Append(@, e)]
    /\ UNCHANGED <<result, memo, store, calls, db, imported>>

\* profile.<cat>.pop(i - 1) alone
ListPop(cat, i) ==
    /\ i \in 1..Len(profile[cat])
    /\ profile' = [profile EXCEPT ![cat] = RemoveAt(@, i)]
    /\ UNCHANGED <<result, memo, store, calls, db, imported>>

\* no invocation on the caller's profile is in progress
Quiescent ==
    \A pid \in Pids :
        InProgress(calls.frame[pid]) => calls.frame[pid].arg # "session"

\* two callers, each on the caller's profile or on the other profile; the
\* profile is edited only between the invocations that were given it
NextConcurrent ==
    \/ \E pid \in Pids : \E arg \in {"session", "other"} : Call(pid, arg)
    \/ \E pid \in Pids : BeginRegime(pid)
    \/ \E pid \in Pids : EntryStep(pid)
    \/ \E pid \in Pids : TotalTaxStep(pid)
    \/ \E pid \in Pids : IncomeStep(pid)
    \/ \E pid \in Pids : Return(pid)
    \/ \E cat \in CategorySet : \E e \in ConcurrentEntriesOf(cat) :
          Quiescent /\ ListAppend(cat, e)
    \/ \E cat \in CategorySet : \E i \in 1..MaxEntries + 1 :
          Quiescent /\ ListPop(cat, i)

SpecConcurrent == Init /\ [][NextConcurrent]_vars

EditedEntriesOf(cat) ==
    CASE cat = "salary" -> { SalaryIncome(DInt(3000), 12, D(2, 2)) }
      [] cat = "dividends" -> { AmountIncome(DInt(5000)) }
      [] OTHER -> {}

\* one invocation on the caller's profile, whose lists are edited at any time
NextEdited ==
    \/ Call("a", "session")
    \/ BeginRegime("a")
    \/ EntryStep("a")
    \/ TotalTaxStep("a")
    \/ IncomeStep("a")
    \/ Return("a")
    \/ \E cat \in CategorySet : \E e \in EditedEntriesOf(cat) : ListAppend(cat, e)
    \/ \E cat \in CategorySet : \E i \in 1..MaxEntries + 1 : ListPop(cat, i)

SpecEdited == Init /\ [][NextEdited]_vars

(***************************************************************************)
(* SpecStore: the profile store (src/tax_core/profile_db.py).  The table   *)
(* profiles has the columns id (INTEGER PRIMARY KEY AUTOINCREMENT), name   *)
(* (UNIQUE) and profile_data (the JSON text of a dictionary); db.rows are  *)
(* its rows, the most recently updated first (the order of list_profiles), *)
(* db.seq is the largest id handed out.  The caller edits its profile and  *)
(* saves, loads, deletes and lists under two names.                        *)
(***************************************************************************)
MaxIds == 3

\* profile.residency.value and ResidencyStatus(value)
ResidencyValue(residency) ==
    CASE residency = "RESIDENT" -> "RESIDENT" [] residency = "NON_RESIDENT" -> "NON_RESIDENT"

ResidencyStatus(value) ==
    CASE value = "RESIDENT" -> "RESIDENT" [] value = "NON_RESIDENT" -> "NON_RESIDENT"

\* the dictionary save_profile serialises: year, residency and the eight
\* lists, each entry as the dictionary of its fields (asdict)
ProfileDict(p) ==
    [year |-> p.year, residency |-> ResidencyValue(p.residency),
     salary |-> p.salary, micro_business |-> p.micro_business,
     small_business |-> p.small_business, rental |-> p.rental,
     capital_gains |-> p.capital_gains, dividends |-> p.dividends,
     interest |-> p.interest, property_tax |-> p.property_tax]

\* the UserProfile load_profile rebuilds; a field that is no key of the
\* dictionary has the dataclass default
FromDict(d) ==
    [year |-> d.year, residency |-> ResidencyStatus(d.residency),
     family_income |-> UserProfile.family_income,
     salary |-> d.salary, micro_business |-> d.micro_business,
     small_business |-> d.small_business, rental |-> d.rental,
     capital_gains |-> d.capital_gains, dividends |-> d.dividends,
     interest |-> d.interest, property_tax |-> d.property_tax]

HasName(rows, name) == \E k \in 1..Len(rows) : rows[k].name = name

RowOf(rows, name) == rows[CHOOSE k \in 1..Len(rows) : rows[k].name = name]

WithoutName(rows, name) == SelectSeq(rows, LAMBDA r : r.name # name)

\* INSERT, or on the IntegrityError of the UNIQUE name UPDATE and SELECT id
save_profile(d, name, p) ==
    IF HasName(d.rows, name)
    THEN LET profile_id == RowOf(d.rows, name).id
         IN  [d EXCEPT
                !.rows = << [id |-> profile_id, name |-> name,
                             profile_data |-> ProfileDict(p)] >>
                         \o WithoutName(d.rows, name),
                !.ret = [NoReturn EXCEPT !.op = "save", !.name = name,
                                         !.id = profile_id, !.present = TRUE],
                !.saved[name] = <<p>>]
    ELSE [d EXCEPT
            !.rows = << [id |-> d.seq + 1, name |-> name,
                         profile_data |-> ProfileDict(p)] >> \o d.rows,
            !.seq = d.seq + 1,
            !.ret = [NoReturn EXCEPT !.op = "save", !.name = name, !.id = d.seq + 1],
            !.saved[name] = <<p>>]

\* SELECT profile_data WHERE name = ?; None is the empty sequence
load_profile(d, name) ==
    [d EXCEPT !.ret = [NoReturn EXCEPT
        !.op = "load", !.name = name, !.present = HasName(d.rows, name),
        !.profile = IF HasName(d.rows, name)
                    THEN <<FromDict(RowOf(d.rows, name).profile_data)>> ELSE <<>>]]

\* DELETE WHERE name = ?; deleted = cursor.rowcount > 0
delete_profile(d, name) ==
    [d EXCEPT
        !.rows = WithoutName(d.rows, name),
        !.ret = [NoReturn EXCEPT
            !.op = "delete", !.name = name, !.present = HasName(d.rows, name),
            !.deleted = Len(d.rows) - Len(WithoutName(d.rows, name)) > 0],
        !.saved[name] = <<>>]

\* SELECT id, name, ... ORDER BY updated_at DESC
list_profiles(d) ==
    [d EXCEPT !.ret = [NoReturn EXCEPT
        !.op = "list",
        !.listing = [k \in 1..Len(d.rows) |->
                        [id |-> d.rows[k].id, name |-> d.rows[k].name]]]]

StoreEntriesOf(cat) ==
    CASE cat = "salary" -> { SalaryIncome(DInt(3000), 12, D(2, 2)) }
      [] OTHER -> {}

StoreFamilyIncomes == {Zero, DInt(50000)}

SaveProfile(name) ==
    /\ HasName(db.rows, name) \/ db.seq < MaxIds
    /\ db' = save_profile(db, name, profile)
    /\ UNCHANGED <<profile, result, memo, store, calls, imported>>

LoadProfile(name) ==
    /\ db' = load_profile(db, name)
    /\ UNCHANGED <<profile, result, memo, store, calls, imported>>

DeleteProfile(name) ==
    /\ db' = delete_profile(db, name)
    /\ UNCHANGED <<profile, result, memo, store, calls, imported>>

ListProfiles ==
    /\ db' = list_profiles(db)
    /\ UNCHANGED <<profile, result, memo, store, calls, imported>>

NextStore ==
    \/ \E cat \in CategorySet : \E e \in StoreEntriesOf(cat) : AddEntry(cat, e)
    \/ \E cat \in CategorySet : \E i \in 1..MaxEntries + 1 : RemoveEntry(cat, i)
    \/ \E f \in StoreFamilyIncomes : SetFamilyIncome(f)
    \/ \E name \in Names : SaveProfile(name)
    \/ \E name \in Names : LoadProfile(name)
    \/ \E name \in Names : DeleteProfile(name)
    \/ ListProfiles

SpecStore == Init /\ [][NextStore]_vars

(***************************************************************************)
(* SpecImport: CSVImporter.import_data (src/tax_core/importers).  A CSV    *)
(* file with the columns income_type, amount and months is written row by  *)
(* row and then imported.  A row is its income_type text in lower case,    *)
(* its amount and its months (12 where the cell is blank, the default of   *)
(* _get_value).  An exception that import_data catches shows as the        *)
(* ImportResult built in its except branch.                                *)
(***************************************************************************)
CsvRow(income_type, amount, months) ==
    [income_type |-> income_type, amount |-> amount, months |-> months]

\* the rows a file is made of, in the order they are written
CsvRows ==
    << CsvRow("salary", DInt(36000), 12),
       CsvRow("salary", DInt(24000), 0),
       CsvRow("micro business", DInt(30000), 12),
       CsvRow("small business", DInt(300000), 12),
       CsvRow("rental income", DInt(9600), 12),
       CsvRow("capital gains", DInt(20000), 12),
       CsvRow("dividends", DInt(5000), 12),
       CsvRow("dividends", Zero, 12),
       CsvRow("interest", DInt(2000), 12),
       CsvRow("property", DInt(150000), 12),
       CsvRow("property", D(25000050, 2), 12) >>

\* the words of the importer that occur in an income_type text ("x in income_type")
WordsIn(income_type) ==
    CASE income_type = "salary" -> {"salary"}
      [] income_type = "micro business" -> {"micro", "business"}
      [] income_type = "small business" -> {"small", "business"}
      [] income_type = "rental income" -> {"rental", "rent"}
      [] income_type = "capital gains" -> {"capital", "gain"}
      [] income_type = "dividends" -> {"dividend"}
      [] income_type = "interest" -> {"interest"}
      [] income_type = "property" -> {"property"}
      [] OTHER -> {}

\* amount / months, kept to three decimals (exact for the amounts used here)
MonthlyAmount(amount, months) ==
    DNorm((amount.v * Pow10(3)) \div months, amount.e + 3)

NoLists ==
    [salary |-> <<>>, micro_business |-> <<>>, small_business |-> <<>>,
     rental |-> <<>>, capital_gains |-> <<>>, dividends |-> <<>>,
     interest |-> <<>>, property_values |-> <<>>, property_types |-> <<>>,
     family_income |-> Zero]

\* the body of "for row in rows:" of extract_user_profile
ExtractRow(acc, row) ==
    LET words == WordsIn(row.income_type)
        amount == row.amount
        months == IF row.months > 0 THEN row.months ELSE 12
    IN  IF amount.v <= 0 THEN acc
        ELSE IF {"salary", "employment", "wage"} \cap words # {}
        THEN [acc EXCEPT
                !.salary = Append(@, SalaryIncome(MonthlyAmount(amount, months),
                                                  months, D(2, 2))),
                !.family_income = DAdd(@, amount)]
        ELSE IF {"micro", "business"} \subseteq words
        THEN [acc EXCEPT
                !.micro_business = Append(@, MicroBusinessIncome(amount, TRUE, TRUE)),
                !.family_income = DAdd(@, amount)]
        ELSE IF {"small", "business"} \subseteq words
        THEN [acc EXCEPT
                !.small_business = Append(@, SmallBusinessIncome(amount, TRUE)),
                !.family_income = DAdd(@, amount)]
        ELSE IF {"rental", "rent"} \cap words # {}
        THEN [acc EXCEPT
                !.rental = Append(@, RentalIncome(MonthlyAmount(amount, months),
                                                  months, TRUE)),
                !.family_income = DAdd(@, amount)]
        ELSE IF {"capital", "gain"} \subseteq words
        THEN LET sale_price == amount
                 purchase_price == DSub(sale_price, amount)
             IN  [acc EXCEPT
                    !.capital_gains = Append(@,
                        CapitalGainsIncome(purchase_price, sale_price, FALSE)),
                    !.family_income =
                        DAdd(@, IF DGt(sale_price, purchase_price)
                                THEN DSub(sale_price, purchase_price) ELSE Zero)]
        ELSE IF "dividend" \in words
        THEN [acc EXCEPT !.dividends = Append(@, AmountIncome(amount)),
                         !.family_income = DAdd(@, amount)]
        ELSE IF "interest" \in words
        THEN [acc EXCEPT !.interest = Append(@, AmountIncome(amount)),
                         !.family_income = DAdd(@, amount)]
        ELSE IF "property" \in words
        THEN [acc EXCEPT !.property_values = Append(@, amount),
                         !.property_types = Append(@, "residential")]
        ELSE acc

RECURSIVE ExtractRows(_, _, _)
ExtractRows(rows, i, acc) ==
    IF i > Len(rows) THEN acc ELSE ExtractRows(rows, i + 1, ExtractRow(acc, rows[i]))

\* the fields of the dataclass PropertyTaxInput, and the keywords the
\* importer passes to its constructor
PropertyTaxInputFields ==
    {"family_income", "properties", "property_values", "tax_rate", "income_threshold"}

PropertyTaxInputKeywords ==
    {"family_income", "properties", "property_values", "property_types"}

ImportResult(success, prof, errors, warnings) ==
    [success |-> success, profile |-> prof, errors |-> errors, warnings |-> warnings]

\* import_data: parse (an empty file raises ValueError), validate (the three
\* columns are there), extract_user_profile; a keyword that is no field of
\* the dataclass makes the constructor raise TypeError; "except Exception"
\* turns either exception into a failed ImportResult
import_data(rows, year) ==
    IF rows = <<>>
    THEN ImportResult(FALSE, <<>>,
            <<"Import failed: CSV file is empty or has no data rows">>, <<>>)
    ELSE LET acc == ExtractRows(rows, 1, NoLists)
         IN  IF acc.property_values # <<>>
                /\ ~(PropertyTaxInputKeywords \subseteq PropertyTaxInputFields)
             THEN ImportResult(FALSE, <<>>,
                     <<"Import failed: PropertyTaxInput.__init__() got an unexpected keyword argument 'property_types'">>,
                     <<>>)
             ELSE ImportResult(TRUE,
                     << [year |-> year, residency |-> "RESIDENT",
                         family_income |-> acc.family_income,
                         salary |-> acc.salary,
                         micro_business |-> acc.micro_business,
                         small_business |-> acc.small_business,
                         rental |-> acc.rental,
                         capital_gains |-> acc.capital_gains,
                         dividends |-> acc.dividends,
                         interest |-> acc.interest,
                         property_tax |->
                            IF acc.property_values # <<>>
                            THEN << PropertyTaxInput(acc.family_income,
                                       Len(acc.property_values), acc.property_values,
                                       D(1, 2), DInt(40000)) >>
                            ELSE <<>>] >>,
                     <<>>, <<>>)

\* the position in CsvRows of the last row written (0 for an empty file)
LastWritten(rows) ==
    IF rows = <<>> THEN 0
    ELSE CHOOSE k \in 1..Len(CsvRows) : CsvRows[k] = rows[Len(rows)]

\* one more row written to the file
WriteRow(k) ==
    /\ imported.ret = <<>>
    /\ k > LastWritten(imported.rows)
    /\ imported' = [imported EXCEPT !.rows = Append(@, CsvRows[k])]
    /\ UNCHANGED <<profile, result, memo, store, calls, db>>

\* result = importer.import_data(csv_file, 2025)
ImportData ==
    /\ imported.ret = <<>>
    /\ imported' = [imported EXCEPT !.ret = <<import_data(imported.rows, 2025)>>]
    /\ UNCHANGED <<profile, result, memo, store, calls, db>>

NextImport ==
    \/ \E k \in 1..Len(CsvRows) : WriteRow(k)
    \/ ImportData

SpecImport == Init /\ [][NextImport]_vars

(***************************************************************************)
(* Helpers of the properties.                                              *)
(***************************************************************************)
\* the RegimeResult of a category in the last result (the category is present)
RegimeOf(res, id) ==
    LET k == CHOOSE k \in 1..Len(res.by_regime) : res.by_regime[k].regime_id = id
    IN  res.by_regime[k]

HasRegime(res, id) == \E k \in 1..Len(res.by_regime) : res.by_regime[k].regime_id = id

RegimeIds(res) == [k \in 1..Len(res.by_regime) |-> res.by_regime[k].regime_id]

\* the value of a step's formula on the literals of its values text; a
\* comparison evaluates to a truth value, which Python counts as 1 or 0
MulFormulas ==
    { "gross = monthly_gross * months", "pension = gross * pension_rate",
      "pit = gross * 0.20", "tax = turnover * 0.00", "tax = turnover * 0.20",
      "tax = turnover * 0.01", "tax_500k = min(turnover, 500000) * 0.01",
      "tax_excess = max(turnover - 500000, 0) * 0.03",
      "annual_rent = monthly_rent * months", "tax = annual_rent * 0.05",
      "tax = annual_rent * 0.20", "tax = gain * 0.05", "tax = total * 0.05",
      "tax = total_value x tax_rate", "tax = property_value x tax_rate" }

LiteralFormulas ==
    { "tax = 0 (loss, no tax)", "tax = 0 (exempt)",
      "tax = 0 (below threshold exemption)", "total = sum(dividends)",
      "total = sum(interest)", "properties = count",
      "total_value = sum(property_values)" }

EvalFormula(step) ==
    LET f == step.formula
        v == step.values
    IN  CASE f \in MulFormulas -> DMul(v[1], v[2])
          [] f = "tax ~ properties x estimated_value x tax_rate" ->
                 DMul(DMul(v[1], v[2]), v[3])
          [] f = "gain = sale_price - purchase_price" -> DSub(v[1], v[2])
          [] f = "total_tax = tax_500k + tax_excess" -> DAdd(v[1], v[2])
          [] f \in LiteralFormulas -> v[1]
          [] f = "family_income > 65,000" ->
                 IF DGt(v[1], v[2]) THEN DInt(1) ELSE DInt(0)

StepAgrees(step) == step.result = EvalFormula(step)

(***************************************************************************)
(* Properties.                                                             *)
(***************************************************************************)

\* C1: every step of every regime result records as `result` the value of its
\* own formula evaluated on the literals shown in its `values` text.
C1_StepResultEqualsFormula ==
    \A k \in 1..Len(result.by_regime) :
        \A j \in 1..Len(result.by_regime[k].steps) :
            StepAgrees(result.by_regime[k].steps[j])

\* C2: by_regime holds exactly one result per non-empty category and none for
\* an empty one, in the fixed category order; a category whose entries are all
\* skipped still appears, with tax 0 and no steps.
NonEmptyCategories(p) == SelectSeq(Categories, LAMBDA c : p[c] # <<>>)

C2_RegimesAreTheNonEmptyCategories ==
    /\ RegimeIds(result) = NonEmptyCategories(profile)
    /\ (profile = UserProfile => result.by_regime = <<>>)

C2_Witness ==
    /\ profile.salary # <<>>
    /\ profile.property_tax # <<>>
    /\ profile.micro_business = <<>>
    /\ Len(result.by_regime) = 2
    /\ result.by_regime[1].regime_id = "salary"
    /\ result.by_regime[1].steps = <<>>
    /\ result.by_regime[1].tax = Zero
    /\ result.by_regime[2].regime_id = "property_tax"

\* C3: total_tax is the sum of the tax fields of the results listed in
\* by_regime, 0 for the empty profile.
RECURSIVE TaxesUpTo(_, _)
TaxesUpTo(results, n) ==
    IF n = 0 THEN Zero ELSE DAdd(TaxesUpTo(results, n - 1), results[n].tax)

C3_TotalTaxIsSumOfRegimeTaxes ==
    /\ result.total_tax = TaxesUpTo(result.by_regime, Len(result.by_regime))
    /\ (profile = UserProfile => result.total_tax = Zero)

C3_Witness ==
    /\ Len(result.by_regime) = 2
    /\ result.by_regime[1].tax.v > 0
    /\ result.by_regime[2].tax.v > 0
    /\ result.total_tax = DAdd(result.by_regime[1].tax, result.by_regime[2].tax)

\* C4: total_income is the sum, over every entry of the seven income lists, of
\* gross * months (salary), turnover (micro, small), rent * months (rental), the
\* gain when sale_price > purchase_price (capital gains) and the amount
\* (dividends, interest); property entries add nothing; skipped entries count.
RECURSIVE AddUp(_, _)
AddUp(f, n) == IF n = 0 THEN Zero ELSE DAdd(AddUp(f, n - 1), f[n])

IncomeShare(cat, e) ==
    CASE cat = "salary" -> DMul(e.monthly_gross, DInt(e.months))
      [] cat \in {"micro_business", "small_business"} -> e.turnover
      [] cat = "rental" -> DMul(e.monthly_rent, DInt(e.months))
      [] cat = "capital_gains" ->
             IF DLe(e.sale_price, e.purchase_price) THEN Zero
             ELSE DSub(e.sale_price, e.purchase_price)
      [] cat \in {"dividends", "interest"} -> e.amount
      [] cat = "property_tax" -> Zero

CategoryIncome(p, cat) ==
    AddUp([i \in 1..Len(p[cat]) |-> IncomeShare(cat, p[cat][i])], Len(p[cat]))

C4_TotalIncomeIsSumOverAllEntries ==
    result.total_income =
        AddUp([k \in 1..Len(Categories) |-> CategoryIncome(profile, Categories[k])],
              Len(Categories))

\* a capital-gains entry the calculator skips (purchase_price 0) next to a
\* skipped salary entry: no step, yet the gain is in total_income
C4_Witness ==
    /\ Len(profile.capital_gains) = 1
    /\ profile.capital_gains[1].purchase_price = Zero
    /\ profile.capital_gains[1].sale_price = DInt(50000)
    /\ Len(profile.property_tax) = 1
    /\ RegimeOf(result, "capital_gains").steps = <<>>
    /\ RegimeOf(result, "property_tax").tax.v > 0
    /\ result.total_income = DInt(50000)

\* C5: appending a capital-gains entry with positive prices, sale_price >
\* purchase_price and the primary-residence mark leaves total_tax as it was and
\* raises total_income by the full gain; appending an entry with sale_price <=
\* purchase_price changes neither total_tax nor total_income.
CgAppended(e) ==
    /\ profile'.capital_gains = Append(profile.capital_gains, e)
    /\ \A c \in CategorySet \ {"capital_gains"} : profile'[c] = profile[c]

C5_PrimaryResidenceGainCountsAsIncomeOnly ==
    [][ \A e \in CapitalGainsEntries :
          CgAppended(e) =>
            /\ ( /\ e.sale_price.v > 0
                 /\ e.purchase_price.v > 0
                 /\ DGt(e.sale_price, e.purchase_price)
                 /\ e.is_primary_residence )
               => /\ result'.total_tax = result.total_tax
                  /\ result'.total_income =
                        DAdd(result.total_income,
                             DSub(e.sale_price, e.purchase_price))
            /\ DLe(e.sale_price, e.purchase_price)
               => /\ result'.total_tax = result.total_tax
                  /\ result'.total_income = result.total_income ]_vars

\* a salary and an exempt primary-residence sale: the tax is the salary's,
\* the income is the salary's plus the gain of 20,000
C5_Witness ==
    /\ profile.salary = <<SalaryIncome(DInt(3000), 12, D(2, 2))>>
    /\ profile.capital_gains =
          <<CapitalGainsIncome(DInt(100000), DInt(120000), TRUE)>>
    /\ result.total_tax = DInt(7200)
    /\ result.total_income = DInt(56000)
    /\ RegimeOf(result, "capital_gains").tax = Zero

\* C6 as stated: effective_rate is total_tax / total_income when total_income
\* is not zero and 0 when total_income is 0, also when total_tax is positive.
C6_RateIsQuotientUnlessIncomeZero ==
    /\ result.total_income.v # 0
         => result.effective_rate = DDiv(result.total_tax, result.total_income)
    /\ result.total_income.v = 0 => result.effective_rate = QuotZero

\* C6 as amended: effective_rate is total_tax / total_income when total_income
\* is positive and 0 when total_income is zero or negative; no division by
\* zero is ever evaluated.
C6_EffectiveRateGuardsNonPositiveIncome ==
    /\ result.total_income.v > 0
         => result.effective_rate = DDiv(result.total_tax, result.total_income)
    /\ result.total_income.v <= 0 => result.effective_rate = QuotZero

\* a profile whose only taxed regime is property: tax 2,000 on income 0
C6_Witness ==
    /\ profile.property_tax = <<PropertyTaxInput(DInt(80000), 2, <<>>, D(1, 2), DInt(40000))>>
    /\ result.total_tax = DInt(2000)
    /\ result.total_income = Zero
    /\ result.effective_rate = QuotZero

StepsOfEntry(r, idx) == SelectSeq(r.steps, LAMBDA st : st.id.idx = idx)

WarningsOfEntry(r, idx) == SelectSeq(r.warnings, LAMBDA w : w.n = idx + 1)

Suffixes(steps) == [j \in 1..Len(steps) |-> steps[j].id.suf]

Results(steps) == [j \in 1..Len(steps) |-> steps[j].result]

\* C8: the salary tax is the sum over the entries with monthly_gross > 0 and
\* months > 0 of 20% of monthly_gross * months; each such entry yields exactly
\* the three steps gross, pension (gross * pension rate) and pit; the pension
\* is never part of the tax.
SalaryCounts(e) == e.monthly_gross.v > 0 /\ e.months > 0

C8_SalaryTaxIsTwentyPercentOfGross ==
    profile.salary # <<>> =>
      LET S == profile.salary
          r == RegimeOf(result, "salary")
          annual(i) == DMul(S[i].monthly_gross, DInt(S[i].months))
      IN  /\ r.tax = AddUp([i \in 1..Len(S) |->
                              IF SalaryCounts(S[i]) THEN DMul(annual(i), D(20, 2))
                              ELSE Zero], Len(S))
          /\ \A i \in 1..Len(S) :
               SalaryCounts(S[i]) =>
                 /\ Suffixes(StepsOfEntry(r, i - 1)) = <<"gross", "pension", "pit">>
                 /\ Results(StepsOfEntry(r, i - 1)) =
                      << annual(i),
                         DMul(annual(i), S[i].pension_employee_rate),
                         DMul(annual(i), D(20, 2)) >>
          /\ Len(r.steps) = 3 * Cardinality({i \in 1..Len(S) : SalaryCounts(S[i])})

\* two salaries of 36,000 with pension rates 2% and 4%: tax 7,200 + 7,200
C8_Witness ==
    /\ Len(profile.salary) = 2
    /\ profile.salary[1].pension_employee_rate = D(2, 2)
    /\ profile.salary[2].pension_employee_rate = D(4, 2)
    /\ RegimeOf(result, "salary").tax = DInt(14400)
    /\ Len(RegimeOf(result, "salary").steps) = 6
    /\ RegimeOf(result, "salary").steps[5].result = DInt(1440)

\* C9: for every micro-business entry with turnover > 0: if no_employees and
\* activity_allowed both hold, one step with result 0, nothing added to the tax
\* and no warning; otherwise one step with result 20% of the turnover, that
\* amount added to the tax, and one warning per failing condition.
FailingConditions(e) ==
    (IF e.no_employees THEN 0 ELSE 1) + (IF e.activity_allowed THEN 0 ELSE 1)

C9_MicroZeroIfEligibleElseTwentyPercent ==
    profile.micro_business # <<>> =>
      LET B == profile.micro_business
          r == RegimeOf(result, "micro_business")
          taxed(i) == B[i].turnover.v > 0 /\ FailingConditions(B[i]) > 0
      IN  /\ r.tax = AddUp([i \in 1..Len(B) |->
                              IF taxed(i) THEN DMul(B[i].turnover, D(20, 2))
                              ELSE Zero], Len(B))
          /\ \A i \in 1..Len(B) :
               B[i].turnover.v > 0 =>
                 /\ Len(StepsOfEntry(r, i - 1)) = 1
                 /\ StepsOfEntry(r, i - 1)[1].result =
                      (IF FailingConditions(B[i]) = 0 THEN Zero
                       ELSE DMul(B[i].turnover, D(20, 2)))
                 /\ Len(WarningsOfEntry(r, i - 1)) = FailingConditions(B[i])

\* an eligible entry and an entry failing one condition: tax 6,000, one warning
C9_Witness ==
    /\ Len(profile.micro_business) = 2
    /\ FailingConditions(profile.micro_business[1]) = 0
    /\ FailingConditions(profile.micro_business[2]) = 1
    /\ profile.micro_business[1].turnover.v > 0
    /\ RegimeOf(result, "micro_business").tax = DInt(6000)
    /\ Len(RegimeOf(result, "micro_business").steps) = 2
    /\ Len(RegimeOf(result, "micro_business").warnings) = 1

\* C10: a small-business entry with 0 < turnover <= 500,000 pays 1% of the
\* turnover, in a single step, without threshold warning; an entry with
\* turnover > 500,000 pays 5,000 + 3% of (turnover - 500,000), in three steps
\* (1% part, 3% part, total = sum of the two parts), with exactly one threshold
\* warning; the threshold warning is there if and only if turnover > 500,000.
ThresholdWarnings(r, idx) ==
    SelectSeq(WarningsOfEntry(r, idx),
              LAMBDA w : w.msg = "Turnover exceeds 500,000 GEL threshold")

C10_SmallBusinessBrackets ==
    profile.small_business # <<>> =>
      LET B == profile.small_business
          r == RegimeOf(result, "small_business")
          limit == DInt(500000)
          above(i) == DGt(B[i].turnover, limit)
          part3(i) == DMul(DSub(B[i].turnover, limit), D(3, 2))
          due(i) == IF above(i) THEN DAdd(DInt(5000), part3(i))
                    ELSE DMul(B[i].turnover, D(1, 2))
      IN  /\ r.tax = AddUp([i \in 1..Len(B) |->
                              IF B[i].turnover.v > 0 THEN due(i) ELSE Zero], Len(B))
          /\ \A i \in 1..Len(B) :
               B[i].turnover.v > 0 =>
                 /\ ~above(i) =>
                      /\ Suffixes(StepsOfEntry(r, i - 1)) = <<"tax">>
                      /\ Results(StepsOfEntry(r, i - 1)) = <<due(i)>>
                 /\ above(i) =>
                      /\ Suffixes(StepsOfEntry(r, i - 1)) =
                            <<"tax_500k", "tax_excess", "tax_total">>
                      /\ Results(StepsOfEntry(r, i - 1)) =
                            <<DInt(5000), part3(i), due(i)>>
                 /\ Len(ThresholdWarnings(r, i - 1)) = (IF above(i) THEN 1 ELSE 0)

\* a turnover at the threshold and one above it: 5,000 + 8,000, one warning
C10_Witness ==
    /\ Len(profile.small_business) = 2
    /\ profile.small_business[1].turnover = DInt(500000)
    /\ profile.small_business[2].turnover = DInt(600000)
    /\ RegimeOf(result, "small_business").tax = DInt(13000)
    /\ Len(RegimeOf(result, "small_business").steps) = 4
    /\ Len(ThresholdWarnings(RegimeOf(result, "small_business"), 1)) = 1
    /\ ThresholdWarnings(RegimeOf(result, "small_business"), 0) = <<>>

\* C11: every rental entry with monthly_rent > 0 and months > 0 adds 5% of
\* monthly_rent * months under the special regime and 20% of it otherwise, in
\* exactly two steps (annual rent, tax); the other entries add nothing and no
\* step; the rental result never holds a warning.
RentalCounts(e) == e.monthly_rent.v > 0 /\ e.months > 0

C11_RentalFiveOrTwentyPercent ==
    profile.rental # <<>> =>
      LET R == profile.rental
          r == RegimeOf(result, "rental")
          annual(i) == DMul(R[i].monthly_rent, DInt(R[i].months))
          due(i) == DMul(annual(i),
                         IF R[i].special_5_percent THEN D(5, 2) ELSE D(20, 2))
      IN  /\ r.tax = AddUp([i \in 1..Len(R) |->
                              IF RentalCounts(R[i]) THEN due(i) ELSE Zero], Len(R))
          /\ \A i \in 1..Len(R) :
               RentalCounts(R[i]) =>
                 /\ Suffixes(StepsOfEntry(r, i - 1)) = <<"gross", "tax">>
                 /\ Results(StepsOfEntry(r, i - 1)) = <<annual(i), due(i)>>
          /\ Len(r.steps) = 2 * Cardinality({i \in 1..Len(R) : RentalCounts(R[i])})
          /\ r.warnings = <<>>

\* 800 a month for 12 months, once special and once standard: 480 + 1,920
C11_Witness ==
    /\ Len(profile.rental) = 2
    /\ profile.rental[1].special_5_percent
    /\ ~profile.rental[2].special_5_percent
    /\ RentalCounts(profile.rental[1])
    /\ RentalCounts(profile.rental[2])
    /\ RegimeOf(result, "rental").tax = DInt(2400)
    /\ Len(RegimeOf(result, "rental").steps) = 4
    /\ RegimeOf(result, "rental").steps[2].result = DInt(480)

\* C12: every capital-gains entry with both prices positive records a gain
\* step (sale_price - purchase_price) first and exactly one further step: a
\* zero "loss" step if gain <= 0, else a zero "exempt" step if the entry is a
\* primary residence, else a step with 5% of the gain; only the last case adds
\* to the tax; a primary residence sold without gain gets the loss step.
CgCounts(e) == e.sale_price.v > 0 /\ e.purchase_price.v > 0

CgTaxed(e) ==
    /\ CgCounts(e)
    /\ DGt(e.sale_price, e.purchase_price)
    /\ ~e.is_primary_residence

C12_CapitalGainsLossThenExemptThenFivePercent ==
    profile.capital_gains # <<>> =>
      LET G == profile.capital_gains
          r == RegimeOf(result, "capital_gains")
          gain(i) == DSub(G[i].sale_price, G[i].purchase_price)
          due(i) == IF CgTaxed(G[i]) THEN DMul(gain(i), D(5, 2)) ELSE Zero
          second(i) == StepsOfEntry(r, i - 1)[2]
      IN  /\ r.tax = AddUp([i \in 1..Len(G) |-> due(i)], Len(G))
          /\ \A i \in 1..Len(G) :
               CgCounts(G[i]) =>
                 /\ Suffixes(StepsOfEntry(r, i - 1)) = <<"gain", "tax">>
                 /\ Results(StepsOfEntry(r, i - 1)) = <<gain(i), due(i)>>
                 /\ second(i).formula =
                      (IF gain(i).v <= 0 THEN "tax = 0 (loss, no tax)"
                       ELSE IF G[i].is_primary_residence THEN "tax = 0 (exempt)"
                       ELSE "tax = gain * 0.05")
          /\ Len(r.steps) = 2 * Cardinality({i \in 1..Len(G) : CgCounts(G[i])})

\* a primary residence sold at its purchase price (loss step, not exempt
\* step) and a taxed gain of 20,000: tax 1,000
C12_Witness ==
    /\ Len(profile.capital_gains) = 2
    /\ profile.capital_gains[1] =
          CapitalGainsIncome(DInt(100000), DInt(100000), TRUE)
    /\ CgTaxed(profile.capital_gains[2])
    /\ RegimeOf(result, "capital_gains").tax = DInt(1000)
    /\ Len(RegimeOf(result, "capital_gains").steps) = 4
    /\ RegimeOf(result, "capital_gains").steps[2].formula = "tax = 0 (loss, no tax)"

\* the shape of an aggregate regime result (dividends, interest) for a given
\* total: two steps "total" and "tax" (5% of the total) and the tax step's
\* result as regime tax when the total is positive, else no step and tax 0;
\* no step carries an entry index
AggregateShape(r, total) ==
    /\ total.v > 0 =>
          /\ Suffixes(r.steps) = <<"total", "tax">>
          /\ Results(r.steps) = <<total, DMul(total, D(5, 2))>>
          /\ r.tax = r.steps[2].result
    /\ total.v <= 0 => (r.steps = <<>> /\ r.tax = Zero)
    /\ \A j \in 1..Len(r.steps) : r.steps[j].id.idx = -1

SumOfAmounts(list) == AddUp([i \in 1..Len(list) |-> list[i].amount], Len(list))

SumOfPositiveAmounts(list) ==
    AddUp([i \in 1..Len(list) |->
             IF list[i].amount.v > 0 THEN list[i].amount ELSE Zero], Len(list))

\* C13 as stated: the dividends and the interest result have the aggregate
\* shape for the sum of the amounts of their entries.
C13_AggregateOfTheSumOfAmounts ==
    /\ profile.dividends # <<>> =>
          AggregateShape(RegimeOf(result, "dividends"), SumOfAmounts(profile.dividends))
    /\ profile.interest # <<>> =>
          AggregateShape(RegimeOf(result, "interest"), SumOfAmounts(profile.interest))

\* C13 amended: the dividends and the interest result have the aggregate
\* shape for the sum of the positive amounts of their entries (an entry with
\* a zero or negative amount is left out of the total).
C13_AggregateOfThePositiveAmounts ==
    /\ profile.dividends # <<>> =>
          AggregateShape(RegimeOf(result, "dividends"),
                         SumOfPositiveAmounts(profile.dividends))
    /\ profile.interest # <<>> =>
          AggregateShape(RegimeOf(result, "interest"),
                         SumOfPositiveAmounts(profile.interest))

\* dividends of 5,000 and -40,000: the total step shows 5,000, the tax is 250
C13_Witness ==
    /\ Len(profile.dividends) = 2
    /\ SumOfAmounts(profile.dividends) = DInt(-35000)
    /\ Len(RegimeOf(result, "dividends").steps) = 2
    /\ RegimeOf(result, "dividends").steps[1].result = DInt(5000)
    /\ RegimeOf(result, "dividends").tax = DInt(250)

\* what a property entry owes when it is above the threshold: the rate (the
\* entry's tax_rate, 1% when that is not positive) times the sum of its
\* property values, or times properties * 100,000 when it carries no value
PropertyDue(e) ==
    LET rate == IF e.tax_rate.v > 0 THEN e.tax_rate ELSE D(1, 2)
    IN  IF e.property_values # <<>>
        THEN DMul(AddUp(e.property_values, Len(e.property_values)), rate)
        ELSE DMul(DMul(DInt(e.properties), DInt(100000)), rate)

\* the regime tax as the sum of what the entries above 65,000 owe
PropertyTaxOfTaxedEntries(P) ==
    AddUp([i \in 1..Len(P) |->
             IF DGt(P[i].family_income, DInt(65000)) THEN PropertyDue(P[i])
             ELSE Zero], Len(P))

\* C14 as stated: every property entry with family_income <= 65,000 records a
\* zero-tax step and adds nothing to the regime tax, whatever its
\* income_threshold and the profile's family_income; the warnings are empty.
C14_AtMostThresholdRecordsZeroTaxStep ==
    profile.property_tax # <<>> =>
      LET P == profile.property_tax
          r == RegimeOf(result, "property_tax")
      IN  /\ r.tax = PropertyTaxOfTaxedEntries(P)
          /\ r.warnings = <<>>
          /\ \A i \in 1..Len(P) :
               DLe(P[i].family_income, DInt(65000)) =>
                 \E j \in 1..Len(StepsOfEntry(r, i - 1)) :
                    /\ StepsOfEntry(r, i - 1)[j].id.suf = "tax"
                    /\ StepsOfEntry(r, i - 1)[j].result = Zero

\* C14 amended: every property entry with 0 < family_income <= 65,000 records
\* the steps check, properties and a zero-result tax step; an entry with
\* family_income <= 0 records no step; neither adds to the regime tax,
\* whatever the entry's income_threshold and the profile's family_income; the
\* warnings are empty for every input.
C14_PositiveAtMostThresholdRecordsZeroTaxStep ==
    profile.property_tax # <<>> =>
      LET P == profile.property_tax
          r == RegimeOf(result, "property_tax")
      IN  /\ r.tax = PropertyTaxOfTaxedEntries(P)
          /\ r.warnings = <<>>
          /\ \A i \in 1..Len(P) :
               /\ (P[i].family_income.v > 0 /\ DLe(P[i].family_income, DInt(65000))) =>
                    /\ Suffixes(StepsOfEntry(r, i - 1)) =
                          <<"check", "properties", "tax">>
                    /\ StepsOfEntry(r, i - 1)[3].result = Zero
               /\ P[i].family_income.v <= 0 => StepsOfEntry(r, i - 1) = <<>>

\* family income 50,000 (above the entry's income_threshold 40,000) is exempt,
\* family income 80,000 (below the entry's income_threshold 100,000) pays
\* 2,000, while the profile-level family_income is 177,000
C14_Witness ==
    /\ Len(profile.property_tax) = 2
    /\ profile.family_income = DInt(177000)
    /\ profile.property_tax[1].family_income = DInt(50000)
    /\ profile.property_tax[1].income_threshold = DInt(40000)
    /\ profile.property_tax[2].family_income = DInt(80000)
    /\ profile.property_tax[2].income_threshold = DInt(100000)
    /\ RegimeOf(result, "property_tax").tax = DInt(2000)
    /\ RegimeOf(result, "property_tax").steps[3].result = Zero
    /\ RegimeOf(result, "property_tax").warnings = <<>>

\* C15: for every property entry with family_income > 65,000 the rate is the
\* entry's tax_rate, or 1% when that is not positive; with property values
\* the tax is their sum times the rate, recorded as a total-value step, a tax
\* step and, exactly when there are several values, one step per property
\* whose results add up to the tax step's result; without values the tax is
\* properties * 100,000 * rate in a single step whose legal reference names it
\* an estimate; the regime tax is the sum of these amounts.
PropSuffixes(n) == [j \in 1..n |-> "prop"]

HeadStepsFirst(st, e) ==
    /\ Len(st) >= 3
    /\ st[1].id.suf = "check"
    /\ st[1].values = <<e.family_income, DInt(65000)>>
    /\ st[2].id.suf = "properties"
    /\ st[2].result = DInt(e.properties)
    /\ \A j \in 3..Len(st) : st[j].id.suf \in {"tax", "total_value", "estimate", "prop"}

\* C16 as stated: every entry of the property list has a check step and a
\* properties-count step, recorded before any tax step of that entry.
C16_EveryEntryHasCheckAndCount ==
    profile.property_tax # <<>> =>
      \A i \in 1..Len(profile.property_tax) :
         HeadStepsFirst(StepsOfEntry(RegimeOf(result, "property_tax"), i - 1),
                        profile.property_tax[i])

\* C16 amended: every entry with family_income > 0 has a check step and a
\* properties-count step, recorded before any tax step of that entry; an
\* entry with family_income <= 0 has no step.
C16_EveryPositiveEntryHasCheckAndCount ==
    profile.property_tax # <<>> =>
      \A i \in 1..Len(profile.property_tax) :
         LET st == StepsOfEntry(RegimeOf(result, "property_tax"), i - 1)
             e == profile.property_tax[i]
         IN  IF e.family_income.v > 0 THEN HeadStepsFirst(st, e) ELSE st = <<>>

\* an entry without family income (no step) before an entry above the
\* threshold (check, count, estimate)
C16_Witness ==
    /\ Len(profile.property_tax) = 2
    /\ profile.property_tax[1].family_income = Zero
    /\ DGt(profile.property_tax[2].family_income, DInt(65000))
    /\ Suffixes(RegimeOf(result, "property_tax").steps) =
          <<"check", "properties", "estimate">>
    /\ RegimeOf(result, "property_tax").steps[1].id.idx = 1

\* an entry with a non-positive critical field, for the five categories with
\* per-entry steps
SkippableCategories ==
    {"salary", "micro_business", "small_business", "rental", "capital_gains"}

Skipped(cat, e) ==
    CASE cat = "salary"        -> e.monthly_gross.v <= 0 \/ e.months <= 0
      [] cat = "rental"        -> e.monthly_rent.v <= 0 \/ e.months <= 0
      [] cat = "capital_gains" -> e.purchase_price.v <= 0 \/ e.sale_price.v <= 0
      [] OTHER                 -> e.turnover.v <= 0

\* the call raised an exception in place of returning a result
Raised(res) == res.effective_rate = ZeroDivisionError

\* the regime result of a category for a profile holding that one entry only,
\* and for a profile holding that one category only
AloneOf(cat, e) ==
    RegimeOf(calculate_all([UserProfile EXCEPT ![cat] = <<e>>]), cat)

OnlyCategory(p, cat) == [UserProfile EXCEPT ![cat] = p[cat]]

\* C17: calculate_all never raises, also with zero and negative amounts or
\* periods and with regimes whose every entry is skipped; an entry with a
\* non-positive critical field has no step, no warning and no tax; every other
\* entry of its list has the step results, the warnings and the tax it has
\* alone, and every regime has the result it has without the other lists.
C17_SkippedEntriesLeaveTheRestComputed ==
    /\ ~Raised(result)
    /\ \A cat \in SkippableCategories :
         profile[cat] # <<>> =>
           LET L == profile[cat]
               r == RegimeOf(result, cat)
           IN  /\ \A i \in 1..Len(L) :
                    IF Skipped(cat, L[i])
                    THEN /\ StepsOfEntry(r, i - 1) = <<>>
                         /\ WarningsOfEntry(r, i - 1) = <<>>
                    ELSE /\ StepsOfEntry(r, i - 1) # <<>>
                         /\ Results(StepsOfEntry(r, i - 1)) =
                              Results(AloneOf(cat, L[i]).steps)
                         /\ Len(WarningsOfEntry(r, i - 1)) =
                              Len(AloneOf(cat, L[i]).warnings)
               /\ r.tax = AddUp([i \in 1..Len(L) |->
                                   IF Skipped(cat, L[i]) THEN Zero
                                   ELSE AloneOf(cat, L[i]).tax], Len(L))
    /\ \A cat \in CategorySet :
         profile[cat] # <<>> =>
           /\ HasRegime(result, cat)
           /\ RegimeOf(result, cat) =
                RegimeOf(calculate_all(OnlyCategory(profile, cat)), cat)

\* a salary with a negative gross before a salary of 3,000 x 12: only the
\* second one has steps, the tax is 7,200
C17_Witness ==
    /\ Len(profile.salary) = 2
    /\ profile.salary[1].monthly_gross.v < 0
    /\ ~Skipped("salary", profile.salary[2])
    /\ ~Raised(result)
    /\ Len(RegimeOf(result, "salary").steps) = 3
    /\ RegimeOf(result, "salary").steps[1].id.idx = 1
    /\ RegimeOf(result, "salary").tax.v > 0

\* the amounts of a result: everything but the year and the residency
Amounts(res) ==
    [total_tax |-> res.total_tax, total_income |-> res.total_income,
     effective_rate |-> res.effective_rate, by_regime |-> res.by_regime]

\* C18: the result carries the profile's residency and year unchanged, and the
\* profile with any other residency in its place yields the same total_tax,
\* total_income, effective_rate and by_regime (taxes, steps, warnings).
C18_ResidencyPassedThroughWithoutInfluence ==
    /\ result.residency = profile.residency
    /\ result.year = profile.year
    /\ \A r \in Residencies :
         Amounts(calculate_all([profile EXCEPT !.residency = r])) = Amounts(result)

\* a non-resident's profile of 2026 with a salary and a taxed property: the
\* same 9,200 the resident's profile yields
C18_Witness ==
    /\ profile.residency = "NON_RESIDENT"
    /\ profile.year = 2026
    /\ result.residency = "NON_RESIDENT"
    /\ result.year = 2026
    /\ Len(profile.salary) = 1
    /\ Len(profile.property_tax) = 1
    /\ result.total_tax = DInt(9200)
    /\ calculate_all([profile EXCEPT !.residency = "RESIDENT"]).total_tax = DInt(9200)

\* the positions <<regime, step>> of all steps of a result
StepPositions(res) ==
    UNION { { <<k, j>> : j \in 1..Len(res.by_regime[k].steps) } :
            k \in 1..Len(res.by_regime) }

StepIdAt(res, pos) == res.by_regime[pos[1]].steps[pos[2]].id

\* C19: within one result, the steps at two different positions (of the same
\* or of different regimes and entries) have different ids.
C19_StepIdsPairwiseDistinct ==
    \A pos \in StepPositions(result) :
       \A other \in StepPositions(result) :
          pos # other => StepIdAt(result, pos) # StepIdAt(result, other)

\* two property entries with two valued properties each: twelve steps, with
\* two tax steps and four per-property steps
C19_Witness ==
    /\ Len(profile.property_tax) = 2
    /\ Len(profile.property_tax[1].property_values) = 2
    /\ Len(profile.property_tax[2].property_values) = 2
    /\ Cardinality(StepPositions(result)) = 12
    /\ Cardinality({ StepIdAt(result, pos) : pos \in StepPositions(result) }) = 12
    /\ Cardinality({ pos \in StepPositions(result) :
                       StepIdAt(result, pos).suf = "prop" }) = 4

\* the addresses of the list objects a kept result refers to, by kind
StepsAddrs(heap, ref) ==
    { heap.results[ref.by_regime][k].steps :
        k \in 1..Len(heap.results[ref.by_regime]) }

WarningsAddrs(heap, ref) ==
    { heap.results[ref.by_regime][k].warnings :
        k \in 1..Len(heap.results[ref.by_regime]) }

\* a kept result shares no list object with another kept result, and each of
\* its RegimeResults has a steps list and a warnings list of its own
FreshlyConstructed(st) ==
    \A i \in 1..Len(st.returned) :
       /\ Cardinality(StepsAddrs(st.heap, st.returned[i])) =
            Len(st.heap.results[st.returned[i].by_regime])
       /\ Cardinality(WarningsAddrs(st.heap, st.returned[i])) =
            Len(st.heap.results[st.returned[i].by_regime])
       /\ \A j \in 1..Len(st.returned) :
            i # j =>
              /\ st.returned[i].by_regime # st.returned[j].by_regime
              /\ StepsAddrs(st.heap, st.returned[i])
                   \cap StepsAddrs(st.heap, st.returned[j]) = {}
              /\ WarningsAddrs(st.heap, st.returned[i])
                   \cap WarningsAddrs(st.heap, st.returned[j]) = {}

\* C20: an invocation of calculate_all leaves the profile and its entries as
\* they are; whatever step is taken, every result returned so far reads after
\* the step as it read before it; and the results returned share no list
\* object: each has its own by_regime list, each of its RegimeResults its own
\* steps list and warnings list.
C20_ResultsFreshAndNeverChangedLater ==
    [][ /\ Len(store'.returned) > Len(store.returned) => profile' = profile
        /\ \A i \in 1..Len(store.returned) :
              Deref(store'.heap, store.returned[i]) =
                Deref(store.heap, store.returned[i])
        /\ FreshlyConstructed(store') ]_vars

\* result1 for a salary alone (7,200), then result2 for the salary and a
\* small business: result1 still reads as one regime of three steps
C20_Witness ==
    /\ Len(store.returned) = 2
    /\ Len(Deref(store.heap, store.returned[1]).by_regime) = 1
    /\ Deref(store.heap, store.returned[1]).total_tax = DInt(7200)
    /\ Len(Deref(store.heap, store.returned[1]).by_regime[1].steps) = 3
    /\ Len(Deref(store.heap, store.returned[2]).by_regime) = 2
    /\ Len(Deref(store.heap, store.returned[2]).by_regime[2].warnings) > 0
    /\ result = Deref(store.heap, store.returned[2])
    /\ result = calculate_all(profile)

(***************************************************************************)
(* Helpers of the properties on invocations in progress.                   *)
(***************************************************************************)
\* the locals of a category's calculator after the first n entries of a list
RECURSIVE AccAfter(_, _, _)
AccAfter(cat, list, n) ==
    IF n = 0 THEN EmptyAcc
    ELSE EntryOf(cat, AccAfter(cat, list, n - 1), n - 1, list[n])

\* the invocation is where it would be, with the locals it would have, had it
\* run alone on the profile it began with
AsAlone(f, acc, alone) ==
    /\ f.pc = "done" => f.out = <<alone>>
    /\ f.pc = "entry" =>
          acc = AccAfter(Categories[f.k], f.start[Categories[f.k]], f.i - 1)
    /\ InProgress(f) => f.results = SubSeq(alone.by_regime, 1, Len(f.results))
    /\ f.pc \in {"income", "rate"} => f.total_tax = alone.total_tax
    /\ f.pc = "rate" => f.total_income = alone.total_income

\* C21: calculate_all invocations interleaved step by step, on the same
\* unmodified profile or on different profiles, each return the result they
\* return when run alone, and at every step each has the steps, warnings and
\* running totals it would have alone: none observes those of another.
C21_InterleavedInvocationsReturnWhatTheyReturnAlone ==
    \A pid \in Pids :
        AsAlone(calls.frame[pid], calls.acc[pid], calculate_all(calls.frame[pid].start))

\* an invocation that made loop iterations while the other was inside a loop
\* has returned a result with steps and a warning, the other is still running
C21_Witness ==
    /\ calls.frame["a"].pc = "done"
    /\ calls.frame["a"].overlap
    /\ calls.frame["a"].arg = "session"
    /\ Len(calls.frame["a"].out[1].by_regime) = 2
    /\ \E k \in 1..2 : calls.frame["a"].out[1].by_regime[k].warnings # <<>>
    /\ calls.frame["b"].pc = "entry"
    /\ calls.frame["b"].overlap
    /\ calls.acc["b"].steps # <<>>

\* C22: the result an invocation returns is that of the profile as it was
\* when the invocation began - by_regime, total_tax and total_income all
\* belong to that one state - also when entries are appended to or popped
\* from the profile's lists while the invocation is in progress.
C22_ResultIsOfTheProfileAtTheStart ==
    LET f == calls.frame["a"]
    IN  f.pc = "done" =>
          /\ f.out[1].by_regime = RegimeResults(f.start)
          /\ f.out[1].total_tax = SumTax(f.out[1].by_regime)
          /\ f.out[1].total_income = TotalIncome(f.start)

\* the small-business list with its registered flags replaced
WithFlags(B, flags) == [i \in 1..Len(B) |-> [B[i] EXCEPT !.registered = flags[i]]]

NotRegisteredWarnings(r, idx) ==
    SelectSeq(WarningsOfEntry(r, idx),
              LAMBDA w : w.msg = "Not registered as small business")

\* C23: in calculate_small_business the registered flag controls a warning
\* only: the list with any other registered flags has the same regime tax, the
\* same steps and the same threshold warnings; an entry with turnover > 0 and
\* registered = false has exactly one "not registered" warning, any other
\* entry none, and an entry's warnings are these and its threshold warnings.
C23_RegisteredOnlyControlsAWarning ==
    profile.small_business # <<>> =>
      LET B == profile.small_business
          r == RegimeOf(result, "small_business")
      IN  /\ \A flags \in [1..Len(B) -> BOOLEAN] :
                LET o == calculate_small_business(WithFlags(B, flags))
                IN  /\ o.tax = r.tax
                    /\ o.steps = r.steps
                    /\ \A i \in 1..Len(B) :
                         ThresholdWarnings(o, i - 1) = ThresholdWarnings(r, i - 1)
          /\ \A i \in 1..Len(B) :
                /\ Len(NotRegisteredWarnings(r, i - 1)) =
                      (IF B[i].turnover.v > 0 /\ ~B[i].registered THEN 1 ELSE 0)
                /\ Len(WarningsOfEntry(r, i - 1)) =
                      Len(NotRegisteredWarnings(r, i - 1))
                      + Len(ThresholdWarnings(r, i - 1))
          /\ \A k \in 1..Len(r.warnings) : r.warnings[k].n \in 1..Len(B)

\* an unregistered and a registered business above the threshold: the first
\* has the "not registered" and the threshold warning, the second the latter
C23_Witness ==
    /\ Len(profile.small_business) = 2
    /\ ~profile.small_business[1].registered
    /\ profile.small_business[2].registered
    /\ profile.small_business[1].turnover = profile.small_business[2].turnover
    /\ Len(RegimeOf(result, "small_business").warnings) = 3
    /\ Len(StepsOfEntry(RegimeOf(result, "small_business"), 0)) = 3

\* the regimes whose calculators record steps entry by entry
PerEntryCategories == SkippableCategories \cup {"property_tax"}

EntrySkipped(cat, e) ==
    IF cat = "property_tax" THEN e.family_income.v <= 0 ELSE Skipped(cat, e)

IdPrefix(cat) ==
    CASE cat = "salary" -> "salary"
      [] cat = "micro_business" -> "micro"
      [] cat = "small_business" -> "small"
      [] cat = "rental" -> "rental"
      [] cat = "capital_gains" -> "cg"
      [] cat = "property_tax" -> "property"

\* the orders in which one entry's steps are computed
ComputationOrders(cat) ==
    CASE cat = "salary" -> { <<"gross", "pension", "pit">> }
      [] cat = "micro_business" -> { <<"tax">> }
      [] cat = "small_business" -> { <<"tax">>, <<"tax_500k", "tax_excess", "tax_total">> }
      [] cat = "rental" -> { <<"gross", "tax">> }
      [] cat = "capital_gains" -> { <<"gain", "tax">> }
      [] cat = "property_tax" ->
             { <<"check", "properties", "tax">>,
               <<"check", "properties", "estimate">>,
               <<"check", "properties", "total_value", "tax">>,
               <<"check", "properties", "total_value", "tax", "prop", "prop">>,
               <<"check", "properties", "total_value", "tax", "prop", "prop", "prop">> }

\* the steps an entry has in a list of its own, renumbered to position idx
AtPosition(steps, idx) == [j \in 1..Len(steps) |-> [steps[j] EXCEPT !.id.idx = idx]]

\* C24: in the six per-entry regimes the steps are in entry order (the entry
\* index never decreases along the steps), every id has the regime's prefix
\* and the 0-based position of its entry in the caller's list, the steps of
\* an entry are in their computation order and are the steps the entry has in
\* a list of its own but for the index, and a skipped entry has no step while
\* the later entries keep their positions as index.
C24_StepsInEntryOrderWithListPositions ==
    \A cat \in PerEntryCategories :
       profile[cat] # <<>> =>
         LET L == profile[cat]
             r == RegimeOf(result, cat)
         IN  /\ \A j \in 1..Len(r.steps) : \A k \in 1..Len(r.steps) :
                   j < k => r.steps[j].id.idx <= r.steps[k].id.idx
             /\ \A j \in 1..Len(r.steps) :
                   /\ r.steps[j].id.pre = IdPrefix(cat)
                   /\ r.steps[j].id.idx \in 0..Len(L) - 1
             /\ \A i \in 1..Len(L) :
                   IF EntrySkipped(cat, L[i]) THEN StepsOfEntry(r, i - 1) = <<>>
                   ELSE /\ Suffixes(StepsOfEntry(r, i - 1)) \in ComputationOrders(cat)
                        /\ StepsOfEntry(r, i - 1) =
                              AtPosition(RegimeOf(calculate_all(
                                  [UserProfile EXCEPT ![cat] = <<L[i]>>]), cat).steps, i - 1)

\* a skipped salary entry ahead of a taxed one: the steps are salary_1_gross,
\* salary_1_pension, salary_1_pit, there is no salary_0 step
C24_Witness ==
    /\ Len(profile.salary) = 2
    /\ ~SalaryCounts(profile.salary[1])
    /\ SalaryCounts(profile.salary[2])
    /\ Len(RegimeOf(result, "salary").steps) = 3
    /\ RegimeOf(result, "salary").steps[1].id = StepId("salary", 1, "gross")
    /\ RegimeOf(result, "salary").steps[3].id = StepId("salary", 1, "pit")

\* no field of the entry is negative
NonNegativeEntry(cat, e) ==
    CASE cat = "salary" ->
             e.monthly_gross.v >= 0 /\ e.months >= 0 /\ e.pension_employee_rate.v >= 0
      [] cat \in {"micro_business", "small_business"} -> e.turnover.v >= 0
      [] cat = "rental" -> e.monthly_rent.v >= 0 /\ e.months >= 0
      [] cat = "capital_gains" -> e.purchase_price.v >= 0 /\ e.sale_price.v >= 0
      [] cat \in {"dividends", "interest"} -> e.amount.v >= 0
      [] cat = "property_tax" ->
             /\ e.family_income.v >= 0 /\ e.properties >= 0
             /\ e.tax_rate.v >= 0 /\ e.income_threshold.v >= 0
             /\ \A j \in 1..Len(e.property_values) : e.property_values[j].v >= 0

NonNegativeProfile(p) ==
    /\ p.family_income.v >= 0
    /\ \A cat \in CategorySet :
          \A i \in 1..Len(p[cat]) : NonNegativeEntry(cat, p[cat][i])

\* the entries the claim names as taxed at a positive rate
PositivelyTaxed(cat, e) ==
    CASE cat = "salary" -> e.monthly_gross.v > 0 /\ e.months > 0
      [] cat = "rental" -> e.monthly_rent.v > 0 /\ e.months > 0
      [] cat \in {"dividends", "interest"} -> e.amount.v > 0
      [] OTHER -> FALSE

\* the step appends one entry to the list of cat, the other lists are as before
Appends(cat) ==
    /\ Len(profile'[cat]) = Len(profile[cat]) + 1
    /\ profile' = [profile EXCEPT ![cat] = Append(@, profile'[cat][Len(profile'[cat])])]

CalculatorOf(cat, list) ==
    CASE cat = "salary" -> calculate_salary(list)
      [] cat = "micro_business" -> calculate_micro_business(list)
      [] cat = "small_business" -> calculate_small_business(list)
      [] cat = "rental" -> calculate_rental(list)
      [] cat = "capital_gains" -> calculate_capital_gains(list)
      [] cat = "dividends" -> calculate_dividends(list)
      [] cat = "interest" -> calculate_interest(list)
      [] cat = "property_tax" -> calculate_property_tax(list)

StoreKeepsNamesAndIds ==
    /\ \A name \in Names : HasName(db.rows, name) <=> db.saved[name] # <<>>
    /\ \A j \in 1..Len(db.rows) : \A k \in 1..Len(db.rows) :
          j # k => db.rows[j].name # db.rows[k].name /\ db.rows[j].id # db.rows[k].id
    /\ db.ret.op = "save" =>
          /\ HasName(db.rows, db.ret.name)
          /\ RowOf(db.rows, db.ret.name).id = db.ret.id
    /\ db.ret.op = "load" => (db.ret.profile = <<>> <=> ~db.ret.present)
    /\ db.ret.op = "delete" =>
          /\ db.ret.deleted = db.ret.present
          /\ ~HasName(db.rows, db.ret.name)
    /\ db.ret.op = "list" =>
          /\ Len(db.ret.listing) = Cardinality({ name \in Names : db.saved[name] # <<>> })
          /\ \A j \in 1..Len(db.ret.listing) : \A k \in 1..Len(db.ret.listing) :
                j # k => db.ret.listing[j].name # db.ret.listing[k].name

\* a save under a name in the table returns the id the name had before
SaveKeepsTheId ==
    [][ \A name \in Names :
          (HasName(db.rows, name) /\ db'.ret.op = "save" /\ db'.ret.name = name
              /\ db'.rows # db.rows)
          => db'.ret.id = RowOf(db.rows, name).id ]_vars

\* C27: the profile store is a map from name to the last saved profile:
\* load_profile(n) returns a profile equal to the one last saved under n, with
\* the same year, residency, profile-level fields and eight lists, hence with
\* the same calculate_all result, and None when n was never saved or has been
\* deleted; each name is listed once and keeps its id; delete_profile returns
\* True exactly when the name was present.
C27_StoreIsAMapFromNameToLastSavedProfile ==
    /\ StoreKeepsNamesAndIds
    /\ db.ret.op = "load" => db.ret.profile = db.saved[db.ret.name]

\* the part of C27 that is about the calculation: a loaded profile has the
\* lists, the year and the residency of the saved one and the same result
LoadedProfileCalculatesTheSame ==
    (db.ret.op = "load" /\ db.ret.profile # <<>>) =>
       LET p == db.saved[db.ret.name][1]
           q == db.ret.profile[1]
       IN  /\ ProfileDict(q) = ProfileDict(p)
           /\ calculate_all(q) = calculate_all([p EXCEPT !.family_income = q.family_income])

\* the rows of a file whose income_type has one of the words
RowsWith(rows, words) ==
    SelectSeq(rows, LAMBDA row : WordsIn(row.income_type) \cap words # {})

RowAmounts(rows) == [k \in 1..Len(rows) |-> rows[k].amount]

\* every row of the file has a positive amount and a month count of 1 or more
WellFormedCsv(rows) ==
    /\ rows # <<>>
    /\ \A k \in 1..Len(rows) : rows[k].amount.v > 0 /\ rows[k].months >= 1

\* the profile has one entry per income row of the file
OneEntryPerIncomeRow(p, rows) ==
    /\ Len(p.salary) = Len(RowsWith(rows, {"salary"}))
    /\ Len(p.micro_business) = Len(RowsWith(rows, {"micro"}))
    /\ Len(p.small_business) = Len(RowsWith(rows, {"small"}))
    /\ Len(p.rental) = Len(RowsWith(rows, {"rental"}))
    /\ Len(p.capital_gains) = Len(RowsWith(rows, {"capital"}))
    /\ Len(p.dividends) = Len(RowsWith(rows, {"dividend"}))
    /\ Len(p.interest) = Len(RowsWith(rows, {"interest"}))

\* C28: import_data on a well-formed CSV file (columns income_type, amount,
\* months; positive amounts) that has a property row returns success = True
\* and a profile with one entry per income row and one property_tax entry
\* carrying the property amounts; a failed import has success = False and a
\* non-empty errors list.
C28_CsvWithPropertyRowIsImported ==
    imported.ret # <<>> =>
       LET r == imported.ret[1]
           rows == imported.rows
       IN  /\ (WellFormedCsv(rows) /\ RowsWith(rows, {"property"}) # <<>>) =>
                 /\ r.success
                 /\ r.profile # <<>>
                 /\ OneEntryPerIncomeRow(r.profile[1], rows)
                 /\ Len(r.profile[1].property_tax) = 1
                 /\ r.profile[1].property_tax[1].property_values =
                       RowAmounts(RowsWith(rows, {"property"}))
           /\ ~r.success => r.errors # <<>>

\* what holds of the import as it is: a file without a property row with a
\* positive amount is imported with one entry per income row with a positive
\* amount and no property_tax entry; any other file fails with an error
ImportSucceedsWithoutPropertyRow ==
    imported.ret # <<>> =>
       LET r == imported.ret[1]
           rows == SelectSeq(imported.rows, LAMBDA row : row.amount.v > 0)
       IN  /\ r.success <=> (imported.rows # <<>> /\ RowsWith(rows, {"property"}) = <<>>)
           /\ r.success <=> r.profile # <<>>
           /\ r.success <=> r.errors = <<>>
           /\ r.success =>
                 /\ OneEntryPerIncomeRow(r.profile[1], rows)
                 /\ r.profile[1].property_tax = <<>>

RECURSIVE PowOf(_, _)
PowOf(b, k) == IF k <= 0 THEN 1 ELSE b * PowOf(b, k - 1)

\* x / k <= y / m for positive k and m: by whole parts, and when these are
\* equal by the reciprocals of the fractional parts (no product is formed)
RECURSIVE FracLe(_, _, _, _)
FracLe(x, k, y, m) ==
    IF x \div k # y \div m THEN x \div k < y \div m
    ELSE IF x % k = 0 THEN TRUE
    ELSE IF y % m = 0 THEN FALSE
    ELSE FracLe(m, y % m, k, x % k)

\* the quotient q = (n / d) * 2^p2 * 5^p5 is at most 1/5, that is
\* n * 2^p2 * 5^(p5 + 1) <= d with the negative powers taken to the other side
AtMostOneFifth(q) ==
    FracLe(q.n, PowOf(2, -q.p2) * PowOf(5, -(q.p5 + 1)),
           q.d, PowOf(2, q.p2) * PowOf(5, q.p5 + 1))

\* the decimal a is at most one fifth of the decimal b
DLeOneFifthOf(a, b) == FracLe(a.v, Pow10(a.e), b.v, 5 * Pow10(b.e))

\* the profiles C29 is about: no negative amount, months of 1 or more, no
\* property entry
WithinTwentyPercentDomain(p) ==
    /\ NonNegativeProfile(p)
    /\ \A i \in 1..Len(p.salary) : p.salary[i].months >= 1
    /\ \A i \in 1..Len(p.rental) : p.rental[i].months >= 1
    /\ p.property_tax = <<>>

FinalSuffixes == {"pit", "tax", "tax_total", "estimate"}

OtherSuffixes ==
    {"gross", "pension", "gain", "total", "check", "properties", "tax_500k",
     "tax_excess", "total_value", "prop"}

FinalSteps(steps) == SelectSeq(steps, LAMBDA st : st.id.suf \in FinalSuffixes)

\* C30: the tax of every RegimeResult is the sum of the results of its steps
\* whose id ends in _pit, _tax, _tax_total or _estimate; every other step has
\* one of the intermediate or informational names and is no part of the sum;
\* an entry that has steps has exactly one final step.
C30_RegimeTaxIsTheSumOfItsFinalSteps ==
    \A k \in 1..Len(result.by_regime) :
       LET r == result.by_regime[k]
       IN  /\ r.tax = DSum(Results(FinalSteps(r.steps)))
           /\ \A j \in 1..Len(r.steps) :
                 r.steps[j].id.suf \in FinalSuffixes \cup OtherSuffixes
           /\ \A j \in 1..Len(r.steps) :
                 Len(FinalSteps(StepsOfEntry(r, r.steps[j].id.idx))) = 1

\* a property entry with two values above the threshold (its two per-property
\* steps stay out of the sum) beside a small business above its threshold
C30_Witness ==
    /\ Len(profile.property_tax) = 1
    /\ Len(profile.property_tax[1].property_values) = 2
    /\ Len(RegimeOf(result, "property_tax").steps) = 6
    /\ RegimeOf(result, "property_tax").tax.v > 0
    /\ Len(profile.small_business) = 1
    /\ Len(RegimeOf(result, "small_business").steps) = 3

====
